---------------------------- MODULE Spec2Model ----------------------------
(***************************************************************************)
(* A model of ops-proxy: the long-poll ingestor (telegram.py), the         *)
(* outbound executor with its command translator and the rules validator   *)
(* (http_client.py, rules.py), and the queue watcher with the daemon's     *)
(* dispatch pipeline (watcher.py, cli.py).                                 *)
(*                                                                         *)
(* Four specifications share the module's variables; each leaves the       *)
(* variables of the components it does not describe at their initial       *)
(* values:                                                                 *)
(*   SpecPoll   TelegramLongPoller: start() and a sequence of poll() calls *)
(*   SpecExec   HTTPClient.execute() applied to one request at a time      *)
(*   Spec       FileWatcher + OpsProxyDaemon._process_requests, run by the *)
(*              main thread (startup pass) and the observer thread         *)
(*   SpecDaemon OpsProxyDaemon.start(), its loop, the shutdown signal and  *)
(*              stop(), with the observer thread dispatching               *)
(***************************************************************************)
EXTENDS Integers, Sequences, FiniteSets, TLC

VARIABLES
    \* ---- TelegramLongPoller (telegram.py) ----
    offset,         \* self._offset
    inboxFile,      \* the messages file: [state, messages]
    callback,       \* self.callback: "none" or "notify"
    running,        \* self._running
    lastPoll,       \* history: what the last poll() got and did
    maxSeen,        \* history: largest update_id in any batch so far, -1 if none
    startOffset,    \* history: the offset start() loaded, -1 before start()
    \* ---- one call of HTTPClient.execute (http_client.py) ----
    execPc,         \* "idle", or "done" after a call
    execIn,         \* the call's request, the config and the network's answer
    execOut,        \* what the call did: Returns(...) or Escapes(...)
    \* ---- FileWatcher and the daemon's pipeline (watcher.py, cli.py) ----
    requestsFile,   \* requests.json: [state, requests]
    mtime,          \* st_mtime of requests.json, counted in writes
    responsesFile,  \* responses.json: request id -> response
    events,         \* modification events the observer has not handled yet
    last_mtime,     \* RequestFileHandler._last_mtime
    threads,        \* main and observer thread: position and locals
    daemonCfg,      \* the daemon's Config
    agentWrites,    \* entries the agent has appended
    sent,           \* history: request id -> HTTP calls made for it
    statusWrites,   \* history: request id -> status writes by the pipeline
    lastEvent,      \* history: the event handled last and what it led to
    mtimeAtQueueEvent, \* history: mtime when a queue-file event was last handled
    lastRead,       \* history: the last _read_requests()
    \* ---- OpsProxyDaemon's life cycle (cli.py) ----
    daemon,         \* position of the main thread in start()/stop(), and the
                    \* daemon's fields: [pc, running, watcher, poller, step,
                    \* stops, closed]
    \* ---- OpenClawNotifier (notifier.py) ----
    notifier,       \* the object: [hook_url, hook_token, client]
    lastNotify,     \* history: the last notify_inbox() call and what it did
    prevNotify,     \* history: the call before that
    \* ---- the response sanitizers of HTTPClient (http_client.py) ----
    sanIn,          \* the last sanitizer call: [command, text]
    sanOut          \* what it returned or raised

pollVars == <<offset, inboxFile, callback, running, lastPoll, maxSeen, startOffset>>
execVars == <<execPc, execIn, execOut>>

watchVars == <<requestsFile, mtime, responsesFile, events, last_mtime, threads,
               daemonCfg, agentWrites, sent, statusWrites, lastEvent,
               mtimeAtQueueEvent, lastRead>>

daemonVars == <<daemon>>

notifyVars == <<notifier, lastNotify, prevNotify>>

sanitizeVars == <<sanIn, sanOut>>

vars == <<pollVars, execVars, watchVars, daemonVars, notifyVars, sanitizeVars>>

-----------------------------------------------------------------------------
(* Bounds of the model *)

MaxUpdateId == 1      \* update_ids range over 0..MaxUpdateId
MaxBatch == 2         \* updates in one getUpdates result
BodyLimit == 80       \* config max_body_size, scaled down from 1048576 bytes
ResponseLimit == 100  \* config max_response_size, scaled down from 1048576 bytes
MaxAgentWrites == 1   \* entries the agent appends while the daemon runs
MaxContent == 30      \* config max_search_content_length, scaled down from 8192
MaxLines == 4         \* lines in one answer to a search

-----------------------------------------------------------------------------
(* Helpers *)

Max(S) == CHOOSE m \in S : \A x \in S : x <= m

RECURSIVE SeqsUpTo(_, _)
SeqsUpTo(S, n) ==
    IF n = 0 THEN {<<>>}
    ELSE LET shorter == SeqsUpTo(S, n - 1)
         IN  shorter \cup {Append(s, x) : s \in {t \in shorter : Len(t) = n - 1}, x \in S}


-----------------------------------------------------------------------------
(* JSON values, as the Python code sees them after json.load *)

\* A key that is missing (dict.get gives None), JSON null, strings, numbers and
\* objects; an object keeps its items in document order as <<key, value>> pairs.
Absent == [t |-> "absent"]
Null == [t |-> "null"]
Str(s) == [t |-> "str", v |-> s]
Num(n) == [t |-> "num", n |-> n]
Obj(items) == [t |-> "obj", items |-> items]

\* A string that is a URL, kept in parts because the code inspects them: the
\* text is scheme://host followed by the pieces (no "://" when the scheme is
\* empty); Url("", "", <<>>) is the empty string.
Url(scheme, host, pieces) ==
    [t |-> "url", scheme |-> scheme, host |-> host, pieces |-> pieces]

EmptyUrl == Url("", "", <<>>)
Placeholder == "<token>"

\* isinstance(x, str), isinstance(x, dict)
IsStr(x) == x.t \in {"str", "url"}
IsDict(x) == x.t = "obj"

RECURSIVE PiecesLen(_, _)
PiecesLen(pieces, i) ==
    IF i > Len(pieces) THEN 0 ELSE Len(pieces[i]) + PiecesLen(pieces, i + 1)

\* len(url)
UrlLen(u) ==
    Len(u.scheme) + (IF u.scheme # "" THEN 3 ELSE 0) + Len(u.host) + PiecesLen(u.pieces, 1)

\* Python truthiness: `if x`
Truthy(x) ==
    CASE x.t = "str" -> x.v # ""
      [] x.t = "url" -> UrlLen(x) > 0
      [] x.t = "num" -> x.n # 0
      [] x.t = "obj" -> x.items # <<>>
      [] OTHER -> FALSE

\* dict.get(key): the value of the first item with that key; None (Absent)
\* when there is none.
Get(obj, key) ==
    LET hits == {i \in 1..Len(obj.items) : obj.items[i][1] = key}
    IN  IF hits = {} THEN Absent
        ELSE obj.items[CHOOSE i \in hits : \A j \in hits : i <= j][2]

\* dict.get(key, default): the default only when the key is missing.
GetDefault(obj, key, default) ==
    IF Get(obj, key) = Absent THEN default ELSE Get(obj, key)

\* An optional item of an object under construction.
Opt(key, value) == IF value = Absent THEN <<>> ELSE << <<key, value>> >>

Digits(n) == IF n < 10 THEN 1 ELSE IF n < 100 THEN 2 ELSE IF n < 1000 THEN 3 ELSE 4

\* len(json.dumps(x).encode()) for ASCII content: "..." for a string, null,
\* {"k": v, "k": v} for an object.
RECURSIVE JsonSize(_)
RECURSIVE ItemsSize(_, _)
ItemsSize(items, i) ==
    IF i > Len(items) THEN 0
    ELSE Len(items[i][1]) + 4 + JsonSize(items[i][2])
         + (IF i < Len(items) THEN 2 ELSE 0) + ItemsSize(items, i + 1)
JsonSize(x) ==
    CASE x.t = "str" -> Len(x.v) + 2
      [] x.t = "url" -> UrlLen(x) + 2
      [] x.t = "num" -> Digits(x.n)
      [] x.t = "obj" -> 2 + ItemsSize(x.items, 1)
      [] OTHER -> 4

\* "<token>" in url
HasPlaceholder(u) == u.t = "url" /\ \E i \in 1..Len(u.pieces) : u.pieces[i] = Placeholder

\* Variant of ReplacePlaceholder that replaces the first occurrence only.
ReplacePlaceholder_first(u, token) ==
    LET first == CHOOSE i \in 1..Len(u.pieces) :
                     /\ u.pieces[i] = Placeholder
                     /\ \A j \in 1..(i - 1) : u.pieces[j] # Placeholder
    IN  [u EXCEPT !.pieces[first] = token]

\* url.replace("<token>", token)
ReplacePlaceholder(u, token) ==
    [u EXCEPT !.pieces = [i \in 1..Len(u.pieces) |->
                            IF u.pieces[i] = Placeholder THEN token ELSE u.pieces[i]]]

\* url.startswith(("http://", "https://"))
StartsWithHttp(u) == u.scheme \in {"http", "https"}

\* str(x) of a payload value
NumStr(n) == IF n = 42 THEN "42" ELSE IF n = 7 THEN "7" ELSE "0"
PyStr(x) == IF x.t = "num" THEN Str(NumStr(x.n)) ELSE x

\* str.capitalize() of a format name
Capitalize(s) ==
    CASE s = "markdown" -> "Markdown"
      [] s = "html" -> "Html"
      [] s = "plain" -> "Plain"
      [] OTHER -> s

\* urllib.parse.quote(query): a space becomes %20
Quote(s) == IF s = "a b" THEN "a%20b" ELSE s

-----------------------------------------------------------------------------
(* Config (config.py) and the rules validator (rules.py) *)

\* An allowed_urls pattern ^scheme://host/ as the pair it matches on.
Pattern(scheme, host) == [scheme |-> scheme, host |-> host]

\* ValidationResult(allowed, reason)
ValidationResult(allowed, reason, scheme) ==
    [allowed |-> allowed, reason |-> reason, scheme |-> scheme]

\* re.compile(pattern).match(url)
PatternMatches(p, u) ==
    /\ u.scheme = p.scheme
    /\ u.host = p.host
    /\ u.pieces # <<>>

\* rules.py validate_url
validate_url(cfg, u) ==
    IF u.scheme = "" THEN ValidationResult(FALSE, "Missing URL scheme", "")
    ELSE IF u.scheme \notin {"http", "https"}
    THEN ValidationResult(FALSE, "Invalid scheme: ", u.scheme)
    ELSE IF \E p \in cfg.allowed_urls : PatternMatches(p, u)
    THEN ValidationResult(TRUE, "URL validated", "")
    ELSE ValidationResult(FALSE, "URL does not match allowed patterns", "")

-----------------------------------------------------------------------------
(* Command translator (http_client.py) *)

\* Request dataclass (created_at and status play no part)
Request(id, method, url, headers, body) ==
    [id |-> id, method |-> method, url |-> url, headers |-> headers, body |-> body]

\* What a translate function gives back: None, a (request, files) pair, or an
\* exception that leaves the function.
NotApplicable == [kind |-> "none"]
Translated(request, files) == [kind |-> "ok", request |-> request, files |-> files]
Raises(exc) == [kind |-> "raise", exc |-> exc]

\* The file system the send command reads attachments from:
\* Path.exists() and Path.read_bytes().
ExistingFiles == {"/tmp/f.pdf", "/tmp/locked"}
ReadableFiles == {"/tmp/f.pdf"}

\* Variant of TelegramUrl that addresses the send-text endpoint whatever the
\* method.
TelegramUrl_sendMessage(token, method) ==
    Url("https", "api.telegram.org", <<"/bot", token, "/sendMessage">>)

TelegramUrl(token, method) == Url("https", "api.telegram.org", <<"/bot", token, method>>)
JinaSearchUrl(query) == Url("https", "s.jina.ai", <<"/?q=", Quote(query)>>)
JinaReaderUrl == Url("https", "r.jina.ai", <<"/">>)

\* http_client.py _translate_send_command
translate_send_command(request, payload, cfg) ==
    LET chat_id == Get(payload, "chat_id")
        text == Get(payload, "text")
        file_path == Get(payload, "path")
        format_type == GetDefault(payload, "format", Str("plain"))
        token == cfg.bot_token
        caption == IF Truthy(text) THEN << <<"caption", PyStr(text)>> >> ELSE <<>>
        parse_mode == IF format_type # Str("plain")
                      THEN << <<"parse_mode", Str(Capitalize(format_type.v))>> >>
                      ELSE <<>>
    IN  IF ~Truthy(chat_id) \/ (~Truthy(text) /\ ~Truthy(file_path)) THEN NotApplicable
        ELSE IF token = "" THEN NotApplicable
        ELSE IF Truthy(file_path)
        THEN IF file_path.t # "str" THEN Raises("TypeError")
             ELSE IF file_path.v \notin ExistingFiles THEN NotApplicable
             ELSE IF file_path.v \notin ReadableFiles THEN NotApplicable
             ELSE IF format_type # Str("plain") /\ format_type.t # "str"
             THEN Raises("AttributeError")
             ELSE Translated(
                    Request(request.id, "POST", TelegramUrl(token, "/sendDocument"), {},
                            Obj(<< <<"chat_id", PyStr(chat_id)>> >> \o caption \o parse_mode)),
                    [t |-> "files", name |-> file_path.v])
        ELSE IF format_type # Str("plain") /\ format_type.t # "str"
        THEN Raises("AttributeError")
        ELSE Translated(
               Request(request.id, "POST", TelegramUrl(token, "/sendMessage"),
                       {"Content-Type: application/json"},
                       Obj(<< <<"chat_id", PyStr(chat_id)>>, <<"text", PyStr(text)>> >>
                           \o parse_mode)),
               Absent)

\* http_client.py _translate_search_command
translate_search_command(request, payload, cfg) ==
    LET query == Get(payload, "query")
        api_key == cfg.jina_api_key
    IN  IF ~Truthy(query) THEN NotApplicable
        ELSE IF api_key = "" THEN NotApplicable
        ELSE IF query.t # "str" THEN Raises("TypeError")
        ELSE Translated(
               Request(request.id, "GET", JinaSearchUrl(query.v),
                       {"Authorization: Bearer"}, Absent),
               Absent)

\* http_client.py _translate_read_command
translate_read_command(request, payload, cfg) ==
    LET url == Get(payload, "url")
        api_key == cfg.jina_api_key
    IN  IF ~Truthy(url) THEN NotApplicable
        ELSE IF ~IsStr(url) THEN Raises("AttributeError")
        ELSE IF ~(url.t = "url" /\ StartsWithHttp(url)) THEN NotApplicable
        ELSE IF api_key = "" THEN NotApplicable
        ELSE Translated(
               Request(request.id, "POST", JinaReaderUrl,
                       {"Authorization: Bearer", "Content-Type: application/json",
                        "Accept: application/json"},
                       Obj(<< <<"url", url>> >>)),
               Absent)

\* http_client.py _translate_unified_format
translate_unified_format(request, cfg) ==
    IF ~Truthy(request.body) \/ ~IsDict(request.body) THEN NotApplicable
    ELSE LET command == Get(request.body, "command")
             payload == Get(request.body, "payload")
         IN  IF ~Truthy(command) \/ ~Truthy(payload) \/ ~IsDict(payload) THEN NotApplicable
             ELSE IF command = Str("send") THEN translate_send_command(request, payload, cfg)
             ELSE IF command = Str("search") THEN translate_search_command(request, payload, cfg)
             ELSE IF command = Str("read") THEN translate_read_command(request, payload, cfg)
             ELSE NotApplicable

-----------------------------------------------------------------------------
(* Outbound executor (http_client.py execute) *)

\* Response dataclass (received_at plays no part)
Response(status, body, error) == [status |-> status, body |-> body, error |-> error]

\* An error string: its fixed text and the numbers formatted into it.
Error(msg, measured, limit) ==
    [t |-> "error", msg |-> msg, measured |-> measured, limit |-> limit]

\* What execute() does as seen by its caller: the response it returns or the
\* exception that leaves it, and the client.request() calls it made.
Returns(response, calls) == [raised |-> FALSE, response |-> response, calls |-> calls]
Escapes(exc) == [raised |-> TRUE, response |-> Response(Absent, Absent, Absent), calls |-> <<>>]

\* What the network can answer to one request: a response (status code,
\* content-length header, kind of body text) or an exception of httpx.
NetOutcome(kind, status, content_length, text) ==
    [kind |-> kind, status |-> status, content_length |-> content_length, text |-> text]

\* httpx.Client.request at the call of execute(): a URL that is no string is a
\* TypeError, one without an http(s) scheme and host is httpx.UnsupportedProtocol
\* (an HTTPError); any other URL gets the network's answer.
client_request(url, net) ==
    IF ~IsStr(url) THEN NetOutcome("exception", 0, Absent, "empty")
    ELSE IF ~(url.t = "url" /\ StartsWithHttp(url) /\ url.host # "")
    THEN NetOutcome("http_error", 0, Absent, "empty")
    ELSE net

\* Variant of response_body that sanitizes the answers to search only.
response_body_search_only(original_command, net) ==
    IF original_command = Str("search") THEN [t |-> "sanitized", type |-> "search"]
    ELSE IF net.text = "empty" THEN Absent
    ELSE [t |-> "json"]

\* The body of a successful response (lines 454-460): sanitized for search and
\* read, else response.json() when there is text.
response_body(original_command, net) ==
    IF original_command = Str("search") THEN [t |-> "sanitized", type |-> "search"]
    ELSE IF original_command = Str("read") THEN [t |-> "sanitized", type |-> "read"]
    ELSE IF net.text = "empty" THEN Absent
    ELSE [t |-> "json"]

\* Variant of response_too_large that also rejects an answer of exactly the
\* ceiling.
response_too_large_inclusive(content_length, cfg) ==
    content_length.t = "num" /\ content_length.n >= cfg.max_response_size

\* http_client.py execute, the response size check (lines 442-443) for a
\* content-length header that int() accepts
response_too_large(content_length, cfg) ==
    content_length.t = "num" /\ content_length.n > cfg.max_response_size

\* Variant of execute_call whose handler for httpx.HTTPError comes before the
\* one for httpx.TimeoutException, which is a subclass of it.
execute_call_http_error_first(request, url, files, original_command, cfg, got) ==
    LET call == [method |-> request.method, url |-> url, body |-> request.body,
                 headers |-> IF files = Absent THEN request.headers ELSE {},
                 files |-> files]
        content_length == got.content_length
        response ==
            CASE got.kind \in {"timeout", "http_error"} ->
                   Response(Absent, Absent, Error("HTTP error: ", 0, 0))
              [] got.kind = "exception" -> Response(Absent, Absent, Error("", 0, 0))
              [] OTHER ->
                   IF content_length.t = "str"
                   THEN Response(Absent, Absent, Error("", 0, 0))
                   ELSE IF response_too_large(content_length, cfg)
                   THEN Response(Num(got.status), Absent,
                                 Error("Response size exceeds limit", content_length.n,
                                       cfg.max_response_size))
                   ELSE IF original_command \notin {Str("search"), Str("read")}
                           /\ got.text = "notjson"
                   THEN Response(Absent, Absent, Error("", 0, 0))
                   ELSE Response(Num(got.status), response_body(original_command, got), Absent)
    IN  Returns(response, <<call>>)

\* Variant of execute_call that keeps the transport status when the body of
\* the answer cannot be parsed.
execute_call_keeping_status(request, url, files, original_command, cfg, got) ==
    LET call == [method |-> request.method, url |-> url, body |-> request.body,
                 headers |-> IF files = Absent THEN request.headers ELSE {},
                 files |-> files]
        content_length == got.content_length
        response ==
            CASE got.kind = "timeout" -> Response(Absent, Absent, Error("Timeout: ", 0, 0))
              [] got.kind = "http_error" -> Response(Absent, Absent, Error("HTTP error: ", 0, 0))
              [] got.kind = "exception" -> Response(Absent, Absent, Error("", 0, 0))
              [] OTHER ->
                   IF content_length.t = "str"
                   THEN Response(Absent, Absent, Error("", 0, 0))
                   ELSE IF response_too_large(content_length, cfg)
                   THEN Response(Num(got.status), Absent,
                                 Error("Response size exceeds limit", content_length.n,
                                       cfg.max_response_size))
                   ELSE IF original_command \notin {Str("search"), Str("read")}
                           /\ got.text = "notjson"
                   THEN Response(Num(got.status), Absent, Error("", 0, 0))
                   ELSE Response(Num(got.status), response_body(original_command, got), Absent)
    IN  Returns(response, <<call>>)

\* http_client.py execute, the try block (lines 421-492) for the answer `got`
execute_call(request, url, files, original_command, cfg, got) ==
    LET call == [method |-> request.method, url |-> url, body |-> request.body,
                 headers |-> IF files = Absent THEN request.headers ELSE {},
                 files |-> files]
        content_length == got.content_length
        response ==
            CASE got.kind = "timeout" -> Response(Absent, Absent, Error("Timeout: ", 0, 0))
              [] got.kind = "http_error" -> Response(Absent, Absent, Error("HTTP error: ", 0, 0))
              [] got.kind = "exception" -> Response(Absent, Absent, Error("", 0, 0))
              [] OTHER ->
                   IF content_length.t = "str"
                   THEN Response(Absent, Absent, Error("", 0, 0))
                   ELSE IF response_too_large(content_length, cfg)
                   THEN Response(Num(got.status), Absent,
                                 Error("Response size exceeds limit", content_length.n,
                                       cfg.max_response_size))
                   ELSE IF original_command \notin {Str("search"), Str("read")}
                           /\ got.text = "notjson"
                   THEN Response(Absent, Absent, Error("", 0, 0))
                   ELSE Response(Num(got.status), response_body(original_command, got), Absent)
    IN  Returns(response, <<call>>)

\* Variant of body_too_large that also rejects a body of exactly the ceiling.
body_too_large_inclusive(body, cfg) == Truthy(body) /\ JsonSize(body) >= cfg.max_body_size

\* http_client.py execute, the body size check (lines 408-412)
body_too_large(body, cfg) == Truthy(body) /\ JsonSize(body) > cfg.max_body_size

\* http_client.py execute from the token injection on (lines 402-492), for the
\* request and files that translation left
execute_request(req, files, original_command, cfg, net) ==
    LET token == cfg.bot_token
        url == IF token # "" /\ HasPlaceholder(req.url)
               THEN ReplacePlaceholder(req.url, token) ELSE req.url
    IN  IF token # "" /\ ~IsStr(req.url) THEN Escapes("TypeError")
        ELSE IF body_too_large(req.body, cfg)
        THEN Returns(Response(Absent, Absent,
                              Error("Body size exceeds limit", JsonSize(req.body),
                                    cfg.max_body_size)), <<>>)
        ELSE execute_call(req, url, files, original_command, cfg, client_request(url, net))

\* Variant of execute that validates the URL of a request the translator did
\* not produce.
execute_validating(request, cfg, net) ==
    LET original_command ==
            IF Truthy(request.body) /\ IsDict(request.body)
            THEN Get(request.body, "command") ELSE Absent
        unified == translate_unified_format(request, cfg)
    IN  IF unified.kind = "raise" THEN Escapes(unified.exc)
        ELSE IF unified.kind = "ok"
        THEN execute_request(unified.request, unified.files, original_command, cfg, net)
        ELSE IF request.url.t = "url" /\ ~validate_url(cfg, request.url).allowed
        THEN Returns(Response(Absent, Absent,
                              Error(validate_url(cfg, request.url).reason, 0, 0)), <<>>)
        ELSE execute_request(request, Absent, original_command, cfg, net)

\* http_client.py execute
execute(request, cfg, net) ==
    LET original_command ==
            IF Truthy(request.body) /\ IsDict(request.body)
            THEN Get(request.body, "command") ELSE Absent
        unified == translate_unified_format(request, cfg)
    IN  IF unified.kind = "raise" THEN Escapes(unified.exc)
        ELSE IF unified.kind = "ok"
        THEN execute_request(unified.request, unified.files, original_command, cfg, net)
        ELSE execute_request(request, Absent, original_command, cfg, net)

-----------------------------------------------------------------------------
(* TelegramLongPoller *)

\* Message texts the platform delivers; "none" is an update without a message
\* (update.get("message", {}) is empty).
Texts == {"m1"}
NoMessage == "none"

\* One element of the "result" list of a getUpdates response.
Updates == [update_id : 0..MaxUpdateId, message : Texts \cup {NoMessage}]

\* What client.get()/raise_for_status()/response.json() can yield.
PollOutcomes ==
    {[kind |-> k, updates |-> <<>>] : k \in {"timeout", "http_error", "not_ok", "error"}}
    \cup {[kind |-> "ok", updates |-> u] : u \in SeqsUpTo(Updates, MaxBatch)}

\* A message as poll() stores it: the platform message with update_id injected.
Tagged(update) == [update_id |-> update.update_id, text |-> update.message]

\* Variant of load_offset that takes the update_id of the last message
load_offset_of_last(file) ==
    IF file.state = "ok" /\ file.messages # <<>>
    THEN file.messages[Len(file.messages)].update_id + 1
    ELSE 0

\* telegram.py _load_offset
load_offset(file) ==
    IF file.state = "ok" /\ file.messages # <<>>
    THEN Max({file.messages[i].update_id : i \in 1..Len(file.messages)}) + 1
    ELSE 0

\* Variant of save_messages that keeps the file as a cumulative log.
save_messages_append(file, messages) ==
    [state |-> "ok", messages |-> file.messages \o messages]

\* telegram.py _save_messages: the file is overwritten by the batch
save_messages(file, messages) == [state |-> "ok", messages |-> messages]

\* Variant of poll_loop whose offset is batch-local: one past the last update.
RECURSIVE poll_loop_batch_local(_, _, _, _)
poll_loop_batch_local(updates, i, messages, off) ==
    IF i > Len(updates) THEN [messages |-> messages, offset |-> off]
    ELSE LET msgs == IF updates[i].message # NoMessage
                     THEN Append(messages, Tagged(updates[i]))
                     ELSE messages
         IN  poll_loop_batch_local(updates, i + 1, msgs, updates[i].update_id + 1)

\* The extraction loop of poll() (lines 101-111), from update i on:
\* [messages, offset] after the loop.
RECURSIVE poll_loop(_, _, _, _)
poll_loop(updates, i, messages, off) ==
    IF i > Len(updates) THEN [messages |-> messages, offset |-> off]
    ELSE LET update_id == updates[i].update_id
             message == updates[i].message
             msgs == IF message # NoMessage
                     THEN Append(messages, Tagged(updates[i]))
                     ELSE messages
             o == IF update_id >= off THEN update_id + 1 ELSE off
         IN  poll_loop(updates, i + 1, msgs, o)

\* cli.py start(): the daemon constructs the poller without a callback and
\* calls poller.start() without one.
DaemonPollerCallback == "none"

\* lastPoll before any poll(). Its fields: kind, the outcome of the fetch;
\* received, the length of the result list; updates, the batch when some update
\* of it carries a message (else <<>>); messages, what poll() returned;
\* notified, how often it invoked the callback; inboxAtNotify, the inbox file's
\* messages when it did; requested, the offset parameter of its getUpdates
\* request.
NoPoll == [kind |-> "none", received |-> 0, updates |-> <<>>, messages |-> <<>>,
           notified |-> 0, inboxAtNotify |-> <<>>, requested |-> 0]

CarriesMessage(updates) == \E i \in 1..Len(updates) : updates[i].message # NoMessage

\* The inbox file before the poller is constructed: absent, not JSON, empty, or
\* one message left by an earlier run.
InitialInboxes ==
    {[state |-> "missing", messages |-> <<>>],
     [state |-> "malformed", messages |-> <<>>],
     [state |-> "ok", messages |-> <<>>]}
    \cup {[state |-> "ok", messages |-> <<[update_id |-> n, text |-> t]>>] :
            n \in 0..MaxUpdateId, t \in Texts}

PollerInit ==
    /\ offset = 0
    /\ inboxFile \in InitialInboxes
    /\ callback \in {DaemonPollerCallback, "notify"}
    /\ running = FALSE
    /\ lastPoll = NoPoll
    /\ maxSeen = -1
    /\ startOffset = -1

\* telegram.py start()
PollerStart ==
    /\ ~running
    /\ offset' = load_offset(inboxFile)
    /\ startOffset' = load_offset(inboxFile)
    /\ running' = TRUE
    /\ UNCHANGED <<inboxFile, callback, lastPoll, maxSeen>>
    /\ UNCHANGED <<execVars, watchVars, daemonVars, notifyVars, sanitizeVars>>

\* Variant of has_messages that saves and notifies after every poll
always_has_messages(messages) == TRUE

\* telegram.py poll line 113: if messages
has_messages(messages) == messages # <<>>

\* telegram.py poll(), one call with the outcome `r` of the HTTP fetch
poll(r) ==
    LET res == IF r.kind = "ok"
               THEN poll_loop(r.updates, 1, <<>>, offset)
               ELSE [messages |-> <<>>, offset |-> offset]
        saved == has_messages(res.messages)
        file == IF saved THEN save_messages(inboxFile, res.messages) ELSE inboxFile
        called == saved /\ callback # "none"
        params == [offset |-> offset]
    IN  /\ offset' = res.offset
        /\ inboxFile' = file
        /\ lastPoll' = [kind |-> r.kind, received |-> Len(r.updates), updates |-> IF CarriesMessage(r.updates) THEN r.updates ELSE <<>>,
                        messages |-> res.messages,
                        notified |-> IF called THEN 1 ELSE 0,
                        inboxAtNotify |-> IF called THEN file.messages ELSE <<>>,
                        requested |-> params.offset]
        /\ maxSeen' = Max({maxSeen} \cup
                          {r.updates[i].update_id : i \in 1..Len(r.updates)})
        /\ UNCHANGED <<callback, running, startOffset>>

\* The daemon's loop, or any other caller, calls poll()
Poll ==
    /\ running
    /\ \E r \in PollOutcomes : poll(r)
    /\ UNCHANGED <<execVars, watchVars, daemonVars, notifyVars, sanitizeVars>>

\* The poller before it is used, for the specifications of other components.
PollerIdle ==
    /\ offset = 0
    /\ inboxFile = [state |-> "missing", messages |-> <<>>]
    /\ callback = DaemonPollerCallback
    /\ running = FALSE
    /\ lastPoll = NoPoll
    /\ maxSeen = -1
    /\ startOffset = -1

-----------------------------------------------------------------------------
(* One call of execute(): the requests, configurations and network answers *)

Text51 == "xxxxxxxxxxxxxxxxxxxxxxxxxxxxxxxxxxxxxxxxxxxxxxxxxxx"
Text52 == "xxxxxxxxxxxxxxxxxxxxxxxxxxxxxxxxxxxxxxxxxxxxxxxxxxxx"
Text60 == "yyyyyyyyyyyyyyyyyyyyyyyyyyyyyyyyyyyyyyyyyyyyyyyyyyyyyyyyyyyy"

\* A raw (pass-through) body {"chat_id": "42", "text": text}: 29 + len(text) bytes
RawBody(text) == Obj(<< <<"chat_id", Str("42")>>, <<"text", Str(text)>> >>)

RawUrls ==
    {EmptyUrl,
     TelegramUrl(Placeholder, "/sendMessage"),
     Url("https", "api.telegram.org", <<"/file/bot", Placeholder, "/bot", Placeholder>>),
     Url("https", "evil.com", <<"/api">>),
     Url("http", "api.telegram.org", <<"/x">>),
     Url("ftp", "api.telegram.org", <<"/x">>),
     Url("", "api.telegram.org", <<>>),
     Num(7)}

RawBodies ==
    {Absent, Obj(<<>>), Str("x"),
     RawBody("hi"), RawBody(Text51), RawBody(Text52), RawBody(Text60)}

\* The unified envelope {"id", "command", "payload"}
Envelope(command, payload) ==
    Obj(<< <<"id", Str("r1")>> >> \o Opt("command", command) \o Opt("payload", payload))

SendPayloads ==
    {Obj(Opt("chat_id", c) \o Opt("text", x) \o Opt("path", p) \o Opt("format", f)) :
        c \in {Absent, Str("42"), Num(42)},
        x \in {Absent, Str("hi"), Str(Text60)},
        p \in {Absent, Str("/tmp/f.pdf"), Str("/nope"), Str("/tmp/locked"), Num(7)},
        f \in {Absent, Str("plain"), Str("markdown"), Str("html"), Null, Num(7)}}

SearchPayloads ==
    {Obj(Opt("query", q)) : q \in {Absent, Str(""), Str("cats"), Str("a b"), Num(7)}}

ReadPayloads ==
    {Obj(Opt("url", u)) :
        u \in {Absent, Url("https", "example.com", <<"/a">>),
               Url("http", "example.com", <<"/a">>),
               Url("ftp", "example.com", <<"/a">>), Str("hello"), Num(7)}}

Envelopes ==
    {Envelope(Str("send"), p) : p \in SendPayloads}
    \cup {Envelope(Str("search"), p) : p \in SearchPayloads}
    \cup {Envelope(Str("read"), p) : p \in ReadPayloads}
    \cup {Envelope(c, p) :
            c \in {Absent, Str(""), Str("delete"), Num(7)},
            p \in {Obj(<< <<"chat_id", Str("42")>>, <<"text", Str("hi")>> >>)}}
    \cup {Envelope(c, p) :
            c \in {Str("send"), Str("search"), Str("read")},
            p \in {Absent, Null, Str("x"), Obj(<<>>)}}

\* Envelopes of entries that also name a URL of their own
UrlEnvelopes ==
    {Envelope(Str("search"), Obj(<<>>)),
     Envelope(Str("search"), Obj(<< <<"query", Str("cats")>> >>)),
     Envelope(Str("read"), Absent),
     Envelope(Str("delete"), Obj(<<>>))}

\* The requests execute() is called with: raw ones with a URL of their own,
\* envelopes, which carry none, and envelopes next to a URL.
ExecRequests ==
    {Request("r1", "POST", u, {}, b) : u \in RawUrls, b \in RawBodies}
    \cup {Request("r1", "POST", EmptyUrl, {}, b) : b \in Envelopes}
    \cup {Request("r1", "POST", Url("https", "evil.com", <<"/api">>), {}, b) :
            b \in UrlEnvelopes}

\* Config: the credentials ("" when the environment variable is unset), the
\* allowed_urls patterns and the size ceilings.
Config(bot_token, jina_api_key) ==
    [bot_token |-> bot_token, jina_api_key |-> jina_api_key,
     allowed_urls |-> {Pattern("https", "api.telegram.org")},
     max_body_size |-> BodyLimit, max_response_size |-> ResponseLimit]

Configs == {Config(b, j) : b \in {"", "T"}, j \in {"", "K"}}

NetOutcomes ==
    {NetOutcome(k, 0, Absent, "empty") : k \in {"timeout", "http_error", "exception"}}
    \cup {NetOutcome("ok", st, Absent, x) :
            st \in {200, 400}, x \in {"json", "empty", "notjson"}}
    \cup {NetOutcome("ok", 200, c, "json") :
            c \in {Num(ResponseLimit), Num(ResponseLimit + 1), Str("abc")}}

NoExecIn == [request |-> Request("", "", EmptyUrl, {}, Absent),
             cfg |-> Config("", ""),
             net |-> NetOutcome("timeout", 0, Absent, "empty")]

ExecIdle ==
    /\ execPc = "idle"
    /\ execIn = NoExecIn
    /\ execOut = Returns(Response(Absent, Absent, Absent), <<>>)

\* The caller hands one request to execute()
ExecCall ==
    /\ execPc = "idle"
    /\ \E request \in ExecRequests, cfg \in Configs, net \in NetOutcomes :
         /\ execIn' = [request |-> request, cfg |-> cfg, net |-> net]
         /\ execOut' = execute(request, cfg, net)
    /\ execPc' = "done"
    /\ UNCHANGED <<pollVars, watchVars, daemonVars, notifyVars, sanitizeVars>>

\* The caller has taken the result
ExecReturn ==
    /\ execPc = "done"
    /\ execPc' = "idle"
    /\ execIn' = NoExecIn
    /\ execOut' = Returns(Response(Absent, Absent, Absent), <<>>)
    /\ UNCHANGED <<pollVars, watchVars, daemonVars, notifyVars, sanitizeVars>>

-----------------------------------------------------------------------------
(* Queue watcher and the daemon's dispatch pipeline (watcher.py, cli.py) *)

\* The two threads that run the pipeline: the main thread makes the startup
\* pass of FileWatcher.start(), the observer thread handles the events.
Threads == {"main", "observer"}

\* Request ids: "a" and "b" are in the queue at start, the agent adds the others
Ids == {"a", "b", "c", "d"}
AgentIds == <<"c", "d">>

\* Queue entries as the agent writes them
Entry(id, status, rest) == Obj(Opt("id", id) \o Opt("status", status) \o rest)

\* {"id", "status", "command": "send", "payload": {chat_id, text}}
TopLevelSend(id, status) ==
    Entry(Str(id), Str(status),
          << <<"command", Str("send")>>, <<"payload", RawBody("hi")>> >>)

\* The same command carried in the entry's body
BodySend(id, status) ==
    Entry(Str(id), Str(status),
          << <<"body", Envelope(Str("send"), RawBody("hi"))>> >>)

\* A pass-through entry with a URL and body of its own
RawSend(id, status) ==
    Entry(Str(id), Str(status),
          << <<"url", TelegramUrl(Placeholder, "/sendMessage")>>,
             <<"body", RawBody("hi")>> >>)

\* A send command that fails the translator's validation: no chat_id
InvalidSend(id, status) ==
    Entry(Str(id), Str(status),
          << <<"body", Envelope(Str("send"), Obj(<< <<"text", Str("hi")>> >>))>> >>)

\* A send command whose format is null: its translation raises
RaisingSend(id, status) ==
    Entry(Str(id), Str(status),
          << <<"body", Envelope(Str("send"),
                                Obj(<< <<"chat_id", Str("42")>>, <<"text", Str("hi")>>,
                                       <<"format", Null>> >>))>> >>)

\* An entry without an id
NoIdEntry == Entry(Absent, Str("pending"), << <<"body", RawBody("hi")>> >>)

\* Contents of requests.json when the watcher starts
InitialQueues ==
    {<<>>,
     <<TopLevelSend("a", "pending")>>,
     <<InvalidSend("a", "pending")>>,
     <<BodySend("a", "pending"), RawSend("b", "pending")>>,
     <<RawSend("a", "failed"), NoIdEntry, BodySend("b", "pending")>>}

\* Entries the agent appends while the daemon runs
NewEntries(id) == {BodySend(id, "pending")}

\* The daemon runs with a bot token and a search key configured
DaemonConfigs == {Config("T", "K")}

\* What the network answers to a call of the pipeline: the platform is up, so
\* an entry fails only by what it asks for
PipelineNet == {NetOutcome("ok", 200, Absent, "json")}

\* Answers for the pipeline without the agent: that one, an error status, a
\* timeout, and answers whose content-length is at and above
\* max_response_size.
DispatchNet ==
    PipelineNet
    \cup {NetOutcome("ok", 400, Absent, "json")}
    \cup {NetOutcome("timeout", 0, Absent, "empty")}
    \cup {NetOutcome("ok", 200, c, "json") : c \in {Num(ResponseLimit), Num(ResponseLimit + 1)}}

\* A thread that is not in the pipeline
Finished(t) ==
    [pc |-> IF t = "main" THEN "done" ELSE "idle",
     batch |-> <<>>, idx |-> 0, responses |-> <<>>, data |-> <<>>, status |-> ""]

NoEvent == [kind |-> "none", changed |-> FALSE, read |-> FALSE]
\* lastRead before any read. Its fields: thread, who read; state, what the
\* read found of requests.json; content, the entries it loaded; called and
\* batch, whether and with what it called the callback; after_failure, whether
\* an earlier read had found the file missing or not JSON.
NoRead == [thread |-> "none", state |-> "ok", content |-> <<>>, called |-> FALSE,
           batch |-> <<>>, after_failure |-> FALSE]

\* Variant of the pending filter that retries failed entries
RECURSIVE not_completed_from(_, _)
not_completed_from(requests, i) ==
    IF i > Len(requests) THEN <<>>
    ELSE (IF Get(requests[i], "status") # Str("completed") THEN <<requests[i]>> ELSE <<>>)
         \o not_completed_from(requests, i + 1)

\* watcher.py _read_requests line 51: [r for r in requests_list
\* if r.get("status") == "pending"], from entry i on
RECURSIVE pending_from(_, _)
pending_from(requests, i) ==
    IF i > Len(requests) THEN <<>>
    ELSE (IF Get(requests[i], "status") = Str("pending") THEN <<requests[i]>> ELSE <<>>)
         \o pending_from(requests, i + 1)

\* Variant of next_with_id that takes the entries from the end of the batch
next_with_id_last(batch, from) ==
    LET with == {j \in from..Len(batch) : Truthy(Get(batch[j], "id"))}
    IN  IF with = {} THEN 0 ELSE CHOOSE j \in with : \A k \in with : j >= k

\* cli.py _process_requests lines 101-104: the next entry of the batch, from
\* position `from` on, that has an id; 0 when the loop is over
next_with_id(batch, from) ==
    LET with == {j \in from..Len(batch) : Truthy(Get(batch[j], "id"))}
    IN  IF with = {} THEN 0 ELSE CHOOSE j \in with : \A k \in with : j <= k

\* Variant of loop_from in which a failed entry ends the batch
loop_from_until_failure(th, t, from) ==
    LET j == IF th.status = "failed" THEN 0 ELSE next_with_id(th.batch, from)
    IN  IF j # 0 THEN [th EXCEPT !.pc = "execute", !.idx = j, !.data = <<>>]
        ELSE IF DOMAIN th.responses # {}
        THEN [th EXCEPT !.pc = "save_read", !.idx = 0, !.data = <<>>]
        ELSE Finished(t)

\* cli.py _process_requests: where the thread stands when the loop goes on
\* from position `from`: at the next entry, at the saving of the responses
\* (lines 136-137), or back in its caller
loop_from(th, t, from) ==
    LET j == next_with_id(th.batch, from)
    IN  IF j # 0 THEN [th EXCEPT !.pc = "execute", !.idx = j, !.data = <<>>]
        ELSE IF DOMAIN th.responses # {}
        THEN [th EXCEPT !.pc = "save_read", !.idx = 0, !.data = <<>>]
        ELSE Finished(t)

\* cli.py _process_requests lines 109-117: the Request built from an entry
http_request(req) ==
    Request(Get(req, "id").v, GetDefault(req, "method", Str("POST")).v,
            GetDefault(req, "url", EmptyUrl), GetDefault(req, "headers", {}),
            Get(req, "body"))

\* req["status"] = status
set_item(obj, key, value) ==
    LET hits == {i \in 1..Len(obj.items) : obj.items[i][1] = key}
    IN  IF hits = {} THEN Obj(Append(obj.items, <<key, value>>))
        ELSE Obj([i \in 1..Len(obj.items) |->
                    IF i \in hits THEN <<key, value>> ELSE obj.items[i]])

\* Variant of set_status that sets the status of every entry with the id.
set_status_of_all(requests, id, status) ==
    [i \in 1..Len(requests) |->
        IF Get(requests[i], "id") = Str(id)
        THEN set_item(requests[i], "status", Str(status)) ELSE requests[i]]

\* cli.py _update_request_status lines 87-90: the first entry with the id
\* gets the status
set_status(requests, id, status) ==
    LET hits == {i \in 1..Len(requests) : Get(requests[i], "id") = Str(id)}
    IN  IF hits = {} THEN requests
        ELSE LET first == CHOOSE i \in hits : \A j \in hits : i <= j
             IN  [requests EXCEPT ![first] = set_item(@, "status", Str(status))]

\* Variant of read_requests in which text that is not JSON makes the read
\* raise, which ends the thread that runs it
read_requests_raising(t) ==
    LET content == IF requestsFile.state = "ok" THEN requestsFile.requests ELSE <<>>
        pending == pending_from(content, 1)
    IN  /\ lastRead' = [thread |-> t, state |-> requestsFile.state, content |-> content,
                        called |-> pending # <<>>, batch |-> pending,
                        after_failure |-> lastRead.state # "ok" \/ lastRead.after_failure]
        /\ threads' = [threads EXCEPT ![t] =
                         IF requestsFile.state = "malformed"
                         THEN [Finished(t) EXCEPT !.pc = "raised"]
                         ELSE IF pending # <<>>
                         THEN loop_from([Finished(t) EXCEPT !.batch = pending], t, 1)
                         ELSE Finished(t)]

\* watcher.py _read_requests (lines 41-60) run by thread t, with the callback
\* cli.py _handle_file_change up to the first entry of the batch
read_requests(t) ==
    LET content == IF requestsFile.state = "ok" THEN requestsFile.requests ELSE <<>>
        pending == pending_from(content, 1)
    IN  /\ lastRead' = [thread |-> t, state |-> requestsFile.state, content |-> content,
                        called |-> pending # <<>>, batch |-> pending,
                        after_failure |-> lastRead.state # "ok" \/ lastRead.after_failure]
        /\ threads' = [threads EXCEPT ![t] =
                         IF pending # <<>>
                         THEN loop_from([Finished(t) EXCEPT !.batch = pending], t, 1)
                         ELSE Finished(t)]

\* requests.json before the watcher starts: a queue, no file, or not JSON
InitialFiles ==
    {[state |-> "ok", requests |-> q] : q \in InitialQueues}
    \cup {[state |-> st, requests |-> <<>>] : st \in {"missing", "malformed"}}

\* Variant of ensure_file that leaves a missing file missing
ensure_file_skipped(file) == file

\* watcher.py FileWatcher.start lines 77-80: a missing queue file is created
\* as {"requests": []}
ensure_file(file) ==
    IF file.state = "missing" THEN [state |-> "ok", requests |-> <<>>] ELSE file

WatchInitWith(files) ==
    /\ requestsFile \in files
    /\ mtime = 1
    /\ responsesFile = <<>>
    /\ events = <<>>
    /\ last_mtime = 0
    /\ threads = [t \in Threads |->
                    IF t = "main" THEN [Finished(t) EXCEPT !.pc = "new"] ELSE Finished(t)]
    /\ daemonCfg \in DaemonConfigs
    /\ agentWrites = 0
    /\ sent = [i \in Ids |-> <<>>]
    /\ statusWrites = [i \in Ids |-> 0]
    /\ lastEvent = NoEvent
    /\ mtimeAtQueueEvent = -1
    /\ lastRead = NoRead

WatchInit == WatchInitWith(InitialFiles)

\* The same start of the daemon, also with a queue in which an id occurs
\* twice, in a pending entry and in a later failed one
DispatchFiles ==
    InitialFiles
    \cup {[state |-> "ok",
           requests |-> <<BodySend("a", "pending"), RawSend("a", "failed"),
                          RawSend("b", "pending")>>]}

\* The same, also with a queue whose first entry makes execute() raise
LiveFiles ==
    DispatchFiles
    \cup {[state |-> "ok",
           requests |-> <<RaisingSend("a", "pending"), BodySend("b", "pending")>>]}

\* watcher.py FileWatcher.start lines 72-90: the queue file is ensured, then
\* the observer is scheduled on its directory and started
WatcherStart ==
    /\ threads["main"].pc = "new"
    /\ requestsFile' = ensure_file(requestsFile)
    /\ threads' = [threads EXCEPT !["main"].pc = "start"]
    /\ UNCHANGED <<mtime, responsesFile, events, last_mtime, daemonCfg, agentWrites,
                   sent, statusWrites, lastEvent, mtimeAtQueueEvent, lastRead>>
    /\ UNCHANGED <<pollVars, execVars, daemonVars, notifyVars, sanitizeVars>>

\* watcher.py FileWatcher.start line 93: the initial read, in the main thread,
\* with the observer thread already running
InitialRead ==
    /\ threads["main"].pc = "start"
    /\ read_requests("main")
    /\ UNCHANGED <<requestsFile, mtime, responsesFile, events, last_mtime, daemonCfg,
                   agentWrites, sent, statusWrites, lastEvent,
                   mtimeAtQueueEvent>>
    /\ UNCHANGED <<pollVars, execVars, daemonVars, notifyVars, sanitizeVars>>

\* Variant of same_mtime that never finds the timestamp unchanged
never_same_mtime(file, current_mtime, last) == FALSE

\* watcher.py on_modified lines 29-33: the stat succeeded and the timestamp
\* is the one recorded at the last event
same_mtime(file, current_mtime, last) == file.state # "missing" /\ current_mtime = last

\* watcher.py on_modified (lines 23-39): the observer thread takes the next
\* event
OnModified ==
    /\ threads["observer"].pc = "idle"
    /\ events # <<>>
    /\ LET ev == Head(events)
           same == same_mtime(requestsFile, mtime, last_mtime)
           reads == ev = "queue" /\ ~same
       IN  /\ events' = Tail(events)
           /\ last_mtime' = IF requestsFile.state = "missing" THEN last_mtime ELSE mtime
           /\ lastEvent' = [kind |-> ev,
                            changed |-> mtimeAtQueueEvent # -1 /\ mtime # mtimeAtQueueEvent,
                            read |-> reads]
           /\ mtimeAtQueueEvent' = IF ev = "queue" THEN mtime ELSE mtimeAtQueueEvent
           /\ IF reads THEN read_requests("observer")
              ELSE UNCHANGED <<threads, lastRead>>
    /\ UNCHANGED <<requestsFile, mtime, responsesFile, daemonCfg, agentWrites,
                   sent, statusWrites>>
    /\ UNCHANGED <<pollVars, execVars, daemonVars, notifyVars, sanitizeVars>>

\* Variant of terminal_status that goes by the status code of the answer.
terminal_status_by_code(response) ==
    IF response.error = Absent /\ response.status.n < 400 THEN "completed" ELSE "failed"

\* cli.py _process_requests lines 131-133: the status an entry gets
terminal_status(response) == IF response.error = Absent THEN "completed" ELSE "failed"

\* cli.py _process_requests lines 106-128 and _update_request_status lines
\* 82-85: thread t executes the entry and reads requests.json; an exception of
\* execute() ends the batch in the except clause of _read_requests
ExecuteWith(t, answers) ==
    /\ threads[t].pc = "execute"
    /\ \E net \in answers :
         LET th == threads[t]
             req == th.batch[th.idx]
             id == Get(req, "id").v
             out == execute(http_request(req), daemonCfg, net)
             got == [th EXCEPT !.responses = (id :> out.response) @@ @,
                               !.status = terminal_status(out.response)]
         IN  /\ sent' = [sent EXCEPT ![id] = @ \o out.calls]
             /\ threads' = [threads EXCEPT ![t] =
                    IF out.raised THEN Finished(t)
                    ELSE IF requestsFile.state # "ok" THEN loop_from(got, t, th.idx + 1)
                    ELSE [got EXCEPT !.pc = "write_status", !.data = requestsFile.requests]]
    /\ UNCHANGED <<requestsFile, mtime, responsesFile, events, last_mtime, daemonCfg,
                   agentWrites, statusWrites, lastEvent, mtimeAtQueueEvent,
                   lastRead>>
    /\ UNCHANGED <<pollVars, execVars, daemonVars, notifyVars, sanitizeVars>>

\* The pipeline's step for an entry whose call is answered 200 with JSON
Execute(t) == ExecuteWith(t, PipelineNet)

\* The same step under every answer of DispatchNet
DispatchExecute(t) == ExecuteWith(t, DispatchNet)

\* cli.py _update_request_status lines 87-93: thread t writes requests.json
\* back with the entry's status set
WriteStatus(t) ==
    /\ threads[t].pc = "write_status"
    /\ LET th == threads[t]
           id == Get(th.batch[th.idx], "id").v
       IN  /\ requestsFile' = [state |-> "ok",
                               requests |-> set_status(th.data, id, th.status)]
           /\ statusWrites' = [statusWrites EXCEPT ![id] =
                                 IF set_status(th.data, id, th.status) # th.data \/
                                    \E i \in 1..Len(th.data) :
                                       Get(th.data[i], "id") = Str(id)
                                 THEN @ + 1 ELSE @]
           /\ threads' = [threads EXCEPT ![t] = loop_from(th, t, th.idx + 1)]
    /\ mtime' = mtime + 1
    /\ events' = Append(events, "queue")
    /\ UNCHANGED <<responsesFile, last_mtime, daemonCfg, agentWrites, sent,
                   lastEvent, mtimeAtQueueEvent, lastRead>>
    /\ UNCHANGED <<pollVars, execVars, daemonVars, notifyVars, sanitizeVars>>

\* cli.py _save_responses lines 63-66: thread t loads responses.json
SaveRead(t) ==
    /\ threads[t].pc = "save_read"
    /\ threads' = [threads EXCEPT ![t] = [@ EXCEPT !.pc = "save_write",
                                                   !.data = responsesFile]]
    /\ UNCHANGED <<requestsFile, mtime, responsesFile, events, last_mtime, daemonCfg,
                   agentWrites, sent, statusWrites, lastEvent,
                   mtimeAtQueueEvent, lastRead>>
    /\ UNCHANGED <<pollVars, execVars, daemonVars, notifyVars, sanitizeVars>>

\* cli.py _save_responses lines 69-75: thread t merges its responses into
\* what it loaded and writes responses.json
SaveWrite(t) ==
    /\ threads[t].pc = "save_write"
    /\ responsesFile' = threads[t].responses @@ threads[t].data
    /\ events' = Append(events, "other")
    /\ threads' = [threads EXCEPT ![t] = Finished(t)]
    /\ UNCHANGED <<requestsFile, mtime, last_mtime, daemonCfg, agentWrites, sent, statusWrites, lastEvent, mtimeAtQueueEvent, lastRead>>
    /\ UNCHANGED <<pollVars, execVars, daemonVars, notifyVars, sanitizeVars>>

\* The agent appends a pending entry to requests.json while the watcher
\* runs; a file that is missing or not JSON it writes anew
AgentAppend ==
    /\ agentWrites < MaxAgentWrites
    /\ agentWrites < Len(AgentIds)
    /\ threads["main"].pc # "new"
    /\ \E e \in NewEntries(AgentIds[agentWrites + 1]) :
         requestsFile' = [state |-> "ok", requests |-> Append(requestsFile.requests, e)]
    /\ agentWrites' = agentWrites + 1
    /\ mtime' = mtime + 1
    /\ events' = Append(events, "queue")
    /\ UNCHANGED <<responsesFile, last_mtime, threads, daemonCfg, sent,
                   statusWrites, lastEvent, mtimeAtQueueEvent, lastRead>>
    /\ UNCHANGED <<pollVars, execVars, daemonVars, notifyVars, sanitizeVars>>

\* The agent's write goes wrong: requests.json is left with text that is not
\* JSON (a modification event follows), or is removed (no modification event
\* for the file)
AgentDamage ==
    /\ agentWrites < MaxAgentWrites
    /\ threads["main"].pc # "new"
    /\ requestsFile.state = "ok"
    /\ \E st \in {"malformed", "missing"} :
         /\ requestsFile' = [state |-> st, requests |-> <<>>]
         /\ events' = IF st = "malformed" THEN Append(events, "queue") ELSE events
    /\ agentWrites' = agentWrites + 1
    /\ mtime' = mtime + 1
    /\ UNCHANGED <<responsesFile, last_mtime, threads, daemonCfg, sent,
                   statusWrites, lastEvent, mtimeAtQueueEvent, lastRead>>
    /\ UNCHANGED <<pollVars, execVars, daemonVars, notifyVars, sanitizeVars>>

\* The watcher and pipeline before FileWatcher.start()
WatchIdle ==
    /\ requestsFile = [state |-> "ok", requests |-> <<>>]
    /\ mtime = 1
    /\ responsesFile = <<>>
    /\ events = <<>>
    /\ last_mtime = 0
    /\ threads = [t \in Threads |-> Finished(t)]
    /\ daemonCfg = Config("", "")
    /\ agentWrites = 0
    /\ sent = [i \in Ids |-> <<>>]
    /\ statusWrites = [i \in Ids |-> 0]
    /\ lastEvent = NoEvent
    /\ mtimeAtQueueEvent = -1
    /\ lastRead = NoRead

-----------------------------------------------------------------------------
(* The daemon's life cycle: start(), the loop, the shutdown signal, stop() *)

\* config.py: the attributes, properties and methods of a Config object
ConfigAttributes ==
    {"data_dir", "config_file", "requests_file", "responses_file", "inbox_file",
     "log_file", "pid_file", "lock_file", "token_env", "allowed_urls",
     "max_body_size", "max_response_size", "request_timeout", "log_level",
     "hook_url", "hook_token", "bot_token", "jina_api_key_env", "jina_api_key",
     "max_search_content_length", "reload"}

\* cli.py start() lines 147-155: the Config attributes start() reads, in
\* order, before it touches any file
StartReads ==
    <<"log_level", "log_file", "data_dir", "requests_file", "responses_file",
      "new_messages_file", "bot_token">>

\* The first attribute start() reads that Config does not have; "" when it has
\* them all
missing_attribute ==
    LET miss == {i \in 1..Len(StartReads) : StartReads[i] \notin ConfigAttributes}
    IN  IF miss = {} THEN ""
        ELSE StartReads[CHOOSE i \in miss : \A j \in miss : i <= j]

\* cli.py __init__: the daemon as constructed. pc is where the main thread
\* stands ("new", "crashed", "startup", "loop", "stop", "exited"); running is
\* self._running; watcher is "none" (self.watcher is None), "watching",
\* "stopping" (observer.stop() called, not yet joined) or "stopped"; poller
\* tells whether self.poller is set; step is the position inside stop();
\* in_try tells whether the signal came inside the try block of start();
\* stops counts the returns of stop(); closed holds the HTTP clients that
\* stop() has closed.
NewDaemon ==
    [pc |-> "new", running |-> FALSE, watcher |-> "none", poller |-> FALSE,
     step |-> 0, in_try |-> FALSE, stops |-> 0, closed |-> {}]

\* cli.py start() lines 171-189: the fields when start() reaches its loop
Started(cfg) ==
    [NewDaemon EXCEPT !.pc = "loop", !.running = TRUE, !.watcher = "watching",
                      !.poller = cfg.bot_token # ""]

\* Variant of stop_steps that closes the outbound client before the observer
\* is stopped and joined
stop_steps_client_first ==
    <<"flag", "client_close", "observer_stop", "observer_join", "poller_stop",
      "poller_close">>

\* cli.py stop() lines 206-212 with watcher.py stop() lines 97-99, in order
stop_steps ==
    <<"flag", "observer_stop", "observer_join", "poller_stop", "poller_close",
      "client_close">>

\* The getUpdates long poll of the daemon's loop finds nothing new
SilentPoll == [kind |-> "timeout", updates |-> <<>>]

\* The daemon's life cycle is not part of the specification
DaemonIdle == daemon = NewDaemon

\* The daemon before start(): nothing is running
DaemonNew == daemon = NewDaemon /\ WatchIdle /\ PollerIdle

\* The daemon in the loop of start(), as lines 158-189 leave it, with or
\* without a bot token: the startup pass found an empty queue, and the agent
\* has since written requests.json, for which one event is waiting. This is
\* the state in which stop() has a watcher, a poller and clients to deal
\* with; DaemonStart shows what start() as written does before line 158.
DaemonInLoop ==
    /\ daemonCfg \in {Config("T", "K"), Config("", "K")}
    /\ daemon = Started(daemonCfg)
    /\ requestsFile \in {[state |-> "ok", requests |-> q] : q \in InitialQueues}
    /\ mtime = 2
    /\ responsesFile = <<>>
    /\ events = <<"queue">>
    /\ last_mtime = 0
    /\ threads = [t \in Threads |-> Finished(t)]
    /\ agentWrites = 0
    /\ sent = [i \in Ids |-> <<>>]
    /\ statusWrites = [i \in Ids |-> 0]
    /\ lastEvent = NoEvent
    /\ mtimeAtQueueEvent = -1
    /\ lastRead = [NoRead EXCEPT !.thread = "main"]
    /\ offset = 0
    /\ inboxFile = [state |-> "ok", messages |-> <<>>]
    /\ callback = DaemonPollerCallback
    /\ running = daemon.poller
    /\ lastPoll = NoPoll
    /\ maxSeen = -1
    /\ startOffset = IF daemon.poller THEN 0 ELSE -1

\* cli.py start() lines 147-189: the attribute reads, then the data files, the
\* watcher with its startup pass and the poller
DaemonStart ==
    /\ daemon.pc = "new"
    /\ IF missing_attribute # ""
       THEN /\ daemon' = [daemon EXCEPT !.pc = "crashed"]
            /\ UNCHANGED <<pollVars, watchVars, sanitizeVars>>
       ELSE /\ daemon' = [Started(daemonCfg) EXCEPT !.pc = "startup"]
            /\ requestsFile' = ensure_file(requestsFile)
            /\ read_requests("main")
            /\ inboxFile' = IF inboxFile.state = "missing"
                            THEN [state |-> "ok", messages |-> <<>>] ELSE inboxFile
            /\ offset' = IF daemonCfg.bot_token # "" THEN load_offset(inboxFile') ELSE offset
            /\ startOffset' = IF daemonCfg.bot_token # "" THEN load_offset(inboxFile')
                              ELSE startOffset
            /\ running' = (daemonCfg.bot_token # "")
            /\ UNCHANGED <<callback, lastPoll, maxSeen>>
            /\ UNCHANGED <<mtime, responsesFile, events, last_mtime, daemonCfg, agentWrites,
                           sent, statusWrites, lastEvent, mtimeAtQueueEvent>>
    /\ UNCHANGED <<execVars, notifyVars, sanitizeVars>>

\* cli.py start() lines 193-197: one turn of the loop
DaemonLoop ==
    /\ daemon.pc \in {"startup", "loop"}
    /\ threads["main"] = Finished("main")
    /\ daemon.running
    /\ daemon' = [daemon EXCEPT !.pc = "loop"]
    /\ IF daemon.poller THEN poll(SilentPoll) ELSE UNCHANGED pollVars
    /\ UNCHANGED <<execVars, watchVars, notifyVars, sanitizeVars>>

\* cli.py main() lines 236-242: SIGINT or SIGTERM arrives; the handler runs
\* in the main thread and calls stop()
Signal ==
    /\ daemon.pc \in {"new", "loop"}
    /\ daemon' = [daemon EXCEPT !.pc = "stop", !.step = 1, !.in_try = (daemon.pc = "loop")]
    /\ UNCHANGED <<pollVars, execVars, watchVars, notifyVars, sanitizeVars>>

\* cli.py stop(): its next step. observer.join() waits for the observer
\* thread, which ends once the handler it is running has returned. When the
\* stop() called by the signal handler returns, sys.exit(0) raises SystemExit,
\* and if that happens inside the try block of start(), its finally clause
\* calls stop() again.
StopStep ==
    /\ daemon.pc = "stop"
    /\ LET what == stop_steps[daemon.step]
           after == IF daemon.step < Len(stop_steps) THEN [daemon EXCEPT !.step = @ + 1]
                    ELSE IF daemon.in_try /\ daemon.stops = 0
                    THEN [daemon EXCEPT !.step = 1, !.stops = 1]
                    ELSE [daemon EXCEPT !.pc = "exited", !.step = 0, !.stops = @ + 1]
       IN  /\ what = "observer_join" /\ daemon.watcher = "stopping" =>
                threads["observer"] = Finished("observer")
           /\ daemon' =
                CASE what = "flag" -> [after EXCEPT !.running = FALSE]
                  [] what = "observer_stop" /\ daemon.watcher = "watching" ->
                       [after EXCEPT !.watcher = "stopping"]
                  [] what = "observer_join" /\ daemon.watcher = "stopping" ->
                       [after EXCEPT !.watcher = "stopped"]
                  [] what = "poller_close" /\ daemon.poller ->
                       [after EXCEPT !.closed = @ \cup {"inbound"}]
                  [] what = "client_close" -> [after EXCEPT !.closed = @ \cup {"outbound"}]
                  [] OTHER -> after
           /\ running' = IF what = "poller_stop" /\ daemon.poller THEN FALSE ELSE running
    /\ UNCHANGED <<offset, inboxFile, callback, lastPoll, maxSeen, startOffset>>
    /\ UNCHANGED <<execVars, watchVars, notifyVars, sanitizeVars>>

\* The observer thread takes the next event, as long as observer.stop() has
\* not been called
ObserverDispatch == daemon.watcher = "watching" /\ OnModified

-----------------------------------------------------------------------------
(* Wake notifier (notifier.py) *)

\* The hook addresses a notifier is constructed with: none, the empty string,
\* the default of config.py, one without "/agent", and a value that is no
\* string.
HookUrls ==
    {Null, Str(""), Url("http", "127.0.0.1:18790", <<"/hook", "/agent">>),
     Url("https", "hooks.example", <<"/wake">>), Num(5)}

HookTokens == {Null, Str(""), Str("s3cret")}

\* The arguments of notify_inbox
ChatIds == {Num(42), Num(43)}
NotifyTexts == {"m1", "m2"}

\* What the hook can answer to the POST
NotifyOutcomes ==
    {NetOutcome(k, 0, Absent, "empty") : k \in {"timeout", "http_error", "exception"}}
    \cup {NetOutcome("ok", st, Absent, "json") : st \in {200, 500}}

\* Variant of raise_for_status that accepts every status.
raise_for_status_never(net) == FALSE

\* response.raise_for_status() (line 69): whether it raises HTTPStatusError
raise_for_status(net) == net.status >= 400

\* self.hook_url.replace("/agent", "/wake") (line 61)
wake_url(hook_url) ==
    [hook_url EXCEPT !.pieces =
        [i \in 1..Len(hook_url.pieces) |->
            IF hook_url.pieces[i] = "/agent" THEN "/wake" ELSE hook_url.pieces[i]]]

\* Variant of wake_payload that passes the message on to the hook.
wake_payload_with_message(update_id, chat_id, text) ==
    Obj(<< <<"text", [t |-> "inbox_msg", update_id |-> update_id]>>,
           <<"mode", Str("now")>>, <<"chat_id", chat_id>>, <<"message", Str(text)>> >>)

\* The payload of the wake request (lines 63-66): the fixed text that ends
\* in update_id={update_id}, and the mode
wake_payload(update_id, chat_id, text) ==
    Obj(<< <<"text", [t |-> "inbox_msg", update_id |-> update_id]>>,
           <<"mode", Str("now")>> >>)

\* notifier.py notify_inbox: the value returned, the POSTs sent and the
\* client the object holds afterwards. Every exception of the try block ends
\* in one of the three handlers, which return False.
notify_inbox(self, update_id, chat_id, text, net) ==
    IF ~Truthy(self.hook_url) \/ ~Truthy(self.hook_token)
    THEN [result |-> FALSE, requests |-> <<>>, client |-> self.client]
    ELSE IF self.hook_url.t # "url"
    THEN [result |-> FALSE, requests |-> <<>>, client |-> self.client]
    ELSE [result |-> net.kind = "ok" /\ ~raise_for_status(net),
          requests |-> << [url |-> wake_url(self.hook_url),
                           headers |-> [content_type |-> "application/json",
                                        authorization |-> <<"Bearer", self.hook_token>>],
                           json |-> wake_payload(update_id, chat_id, text)] >>,
          client |-> "open"]

NoNotify == [kind |-> "none", update_id |-> 0, chat_id |-> Null, text |-> "",
             net |-> NetOutcome("timeout", 0, Absent, "empty"),
             result |-> FALSE, requests |-> <<>>]

\* The notifier is not part of the specification
NotifierIdle ==
    /\ notifier = [hook_url |-> Null, hook_token |-> Null, client |-> "none"]
    /\ lastNotify = NoNotify
    /\ prevNotify = NoNotify

\* OpenClawNotifier.__init__ (lines 14-17)
NotifierInit ==
    /\ notifier \in {[hook_url |-> u, hook_token |-> k, client |-> "none"] :
                        u \in HookUrls, k \in HookTokens}
    /\ lastNotify = NoNotify
    /\ prevNotify = NoNotify

\* A caller calls notify_inbox(update_id, chat_id, text)
NotifyInbox ==
    /\ \E update_id \in 0..MaxUpdateId, chat_id \in ChatIds, text \in NotifyTexts,
          net \in NotifyOutcomes :
         LET out == notify_inbox(notifier, update_id, chat_id, text, net)
         IN  /\ lastNotify' = [kind |-> "call", update_id |-> update_id,
                               chat_id |-> chat_id, text |-> text, net |-> net,
                               result |-> out.result, requests |-> out.requests]
             /\ notifier' = [notifier EXCEPT !.client = out.client]
    /\ prevNotify' = lastNotify
    /\ UNCHANGED <<pollVars, execVars, watchVars, daemonVars, sanitizeVars>>

\* OpenClawNotifier.close (lines 25-29)
NotifierClose ==
    /\ notifier' = [notifier EXCEPT !.client = "none"]
    /\ UNCHANGED <<lastNotify, prevNotify>>
    /\ UNCHANGED <<pollVars, execVars, watchVars, daemonVars, sanitizeVars>>

-----------------------------------------------------------------------------
(* Response sanitizers (http_client.py) *)

ReadMarker == "\n\n[content truncated]"
SearchMarker == "\n\n[truncated]"

\* s[:n]
Prefix(s, n) == IF Len(s) <= n THEN s ELSE SubSeq(s, 1, n)

\* "\n".join(strs)
RECURSIVE JoinLines(_)
JoinLines(strs) ==
    IF strs = <<>> THEN ""
    ELSE IF Len(strs) = 1 THEN strs[1]
    ELSE strs[1] \o "\n" \o JoinLines(Tail(strs))

\* One line of an answer with what the two patterns of the search sanitizer
\* find in it: the stripped title after "Title:" and the address after
\* "URL Source:", each Absent when its pattern does not match.
Line(raw, title, url) == [raw |-> raw, title |-> title, url |-> url]

\* The text of an answer: the characters, its lines (split at "\n") and what
\* json.loads makes of it: a value, or Invalid when it raises JSONDecodeError.
Invalid == [t |-> "invalid"]
MarkdownText(lines) ==
    [raw |-> JoinLines([i \in 1..Len(lines) |-> lines[i].raw]),
     lines |-> IF lines = <<>> THEN <<Line("", Absent, Absent)>> ELSE lines,
     json |-> Invalid]
JsonText(raw, value) == [raw |-> raw, lines |-> <<Line(raw, Absent, Absent)>>, json |-> value]

\* Lines of an answer: numbered titles (one of them blank), a title without
\* a number, which the title pattern does not match, addresses, and text.
SearchLines ==
    {Line("[1] Title: Cats", Str("Cats"), Absent),
     Line("[2] Title:  ", Str(""), Absent),
     Line("Title: Dogs", Absent, Absent),
     Line("[1] URL Source: https://a.io", Absent, Str("https://a.io")),
     Line("[2] URL Source: https://b.io/a/long/path", Absent,
          Str("https://b.io/a/long/path")),
     Line("Some text of the page", Absent, Absent)}

Content29 == "ccccccccccccccccccccccccccccc"

\* The contents a reader answer carries: empty, short, and around
\* max_search_content_length.
ReadContents == {"", "hello", Content29, Content29 \o "c", Content29 \o "cc"}

\* {"data": {"content": content}}
ReaderJson(content) ==
    JsonText("{\"data\": {\"content\": \"" \o content \o "\"}}",
             Obj(<< <<"data", Obj(<< <<"content", Str(content)>> >>)>> >>))

ReadTexts ==
    {ReaderJson(c) : c \in ReadContents}
    \cup {JsonText("{}", Obj(<<>>)),
          JsonText("{\"data\": {}, \"code\": 200, \"status\": 20000}",
                   Obj(<< <<"data", Obj(<<>>)>>, <<"code", Num(200)>>,
                          <<"status", Num(20000)>> >>)),
          JsonText("{\"data\": null}", Obj(<< <<"data", Null>> >>)),
          JsonText("{\"data\": {\"content\": null}}",
                   Obj(<< <<"data", Obj(<< <<"content", Null>> >>)>> >>)),
          JsonText("{\"data\": {\"content\": 7}}",
                   Obj(<< <<"data", Obj(<< <<"content", Num(7)>> >>)>> >>)),
          JsonText("7", Num(7))}

ResponseTexts ==
    {MarkdownText(lines) : lines \in SeqsUpTo(SearchLines, MaxLines)} \cup ReadTexts

\* What a sanitizer returns: the content, type and urls of its envelope
Sanitized(content, type, urls) ==
    [raised |-> FALSE, content |-> content, type |-> type, urls |-> urls]
SanitizerRaises(exc) == [raised |-> TRUE, exc |-> exc]

\* http_client.py _sanitize_read_response lines 316-318
truncate_read(content, max_length) ==
    IF Len(content) > max_length
    THEN Prefix(content, max_length) \o ReadMarker ELSE content

\* http_client.py _sanitize_read_response: content is data["data"]["content"]
\* of the parsed text, the text itself when either key is missing or the text
\* is no JSON; .get on a value that is no dict and len() of a content that is
\* no string raise.
sanitize_read_response(text, max_length) ==
    LET data == text.json
        inner == GetDefault(data, "data", Obj(<<>>))
        content == IF data = Invalid THEN Str(text.raw)
                   ELSE GetDefault(inner, "content", Str(text.raw))
    IN  IF data # Invalid /\ (~IsDict(data) \/ ~IsDict(inner))
        THEN SanitizerRaises("AttributeError")
        ELSE IF ~IsStr(content) THEN SanitizerRaises("TypeError")
        ELSE Sanitized(truncate_read(content.v, max_length), "read", <<>>)

\* dict assignment url_map[url] = title: a known key keeps its place
set_title(url_map, url, title) ==
    IF \E i \in 1..Len(url_map) : url_map[i][1] = url
    THEN [i \in 1..Len(url_map) |->
            IF url_map[i][1] = url THEN <<url, title>> ELSE url_map[i]]
    ELSE Append(url_map, <<url, title>>)

\* http_client.py _sanitize_search_response lines 344-356: the pairs of url
\* and title found in the lines, in the order the urls were first seen
RECURSIVE scan_lines(_, _, _)
scan_lines(lines, current_title, url_map) ==
    IF lines = <<>> THEN url_map
    ELSE LET line == Head(lines)
             title == IF line.title # Absent THEN line.title.v ELSE current_title
         IN  IF line.url # Absent /\ title # ""
             THEN scan_lines(Tail(lines), "", set_title(url_map, line.url.v, title))
             ELSE scan_lines(Tail(lines), title, url_map)

\* str(i) of a position in the listing
IndexStr(i) == CASE i = 1 -> "1" [] i = 2 -> "2" [] OTHER -> "3"

\* lines 359-363: three output lines for each pair
RECURSIVE listing_from(_, _)
listing_from(url_map, i) ==
    IF i > Len(url_map) THEN <<>>
    ELSE << IndexStr(i) \o ". " \o url_map[i][2], "   " \o url_map[i][1], "" >>
         \o listing_from(url_map, i + 1)

\* http_client.py _sanitize_search_response
sanitize_search_response(text, max_length) ==
    LET url_map == scan_lines(text.lines, "", <<>>)
        listing == listing_from(url_map, 1)
        output == IF listing = <<>> THEN <<Prefix(text.raw, max_length)>> ELSE listing
        final_content == JoinLines(output)
    IN  Sanitized(IF Len(final_content) > max_length
                  THEN Prefix(final_content, max_length) \o SearchMarker
                  ELSE final_content,
                  "search",
                  [i \in 1..Len(url_map) |-> url_map[i][1]])

NoSanitize == [command |-> "none", text |-> MarkdownText(<<>>)]

SanitizerIdle ==
    /\ sanIn = NoSanitize
    /\ sanOut = Sanitized("", "none", <<>>)

\* execute() hands the text of an answer to the search sanitizer (line 456)
SanitizeSearch ==
    /\ sanIn = NoSanitize
    /\ \E text \in ResponseTexts :
         /\ sanIn' = [command |-> "search", text |-> text]
         /\ sanOut' = sanitize_search_response(text, MaxContent)
    /\ UNCHANGED <<pollVars, execVars, watchVars, daemonVars, notifyVars>>

\* execute() hands the text of an answer to the read sanitizer (line 458)
SanitizeRead ==
    /\ sanIn = NoSanitize
    /\ \E text \in ResponseTexts :
         /\ sanIn' = [command |-> "read", text |-> text]
         /\ sanOut' = sanitize_read_response(text, MaxContent)
    /\ UNCHANGED <<pollVars, execVars, watchVars, daemonVars, notifyVars>>

\* execute() has taken the sanitizer's result
SanitizeReturn ==
    /\ sanIn # NoSanitize
    /\ sanIn' = NoSanitize
    /\ sanOut' = Sanitized("", "none", <<>>)
    /\ UNCHANGED <<pollVars, execVars, watchVars, daemonVars, notifyVars>>

-----------------------------------------------------------------------------
(* Specifications *)

SanitizeInit ==
    SanitizerIdle /\ PollerIdle /\ ExecIdle /\ WatchIdle /\ DaemonIdle /\ NotifierIdle
SanitizeNext == SanitizeSearch \/ SanitizeRead \/ SanitizeReturn
SpecSanitize == SanitizeInit /\ [][SanitizeNext]_vars

PollInit == PollerInit /\ ExecIdle /\ WatchIdle /\ DaemonIdle /\ NotifierIdle
    /\ SanitizerIdle
PollNext == PollerStart \/ Poll
SpecPoll == PollInit /\ [][PollNext]_vars

ExecInit == ExecIdle /\ PollerIdle /\ WatchIdle /\ DaemonIdle /\ NotifierIdle
    /\ SanitizerIdle
ExecNext == ExecCall \/ ExecReturn
SpecExec == ExecInit /\ [][ExecNext]_vars

Init == WatchInit /\ PollerIdle /\ ExecIdle /\ DaemonIdle /\ NotifierIdle
    /\ SanitizerIdle
Next ==
    \/ WatcherStart
    \/ InitialRead
    \/ OnModified
    \/ \E t \in Threads : Execute(t)
    \/ \E t \in Threads : WriteStatus(t)
    \/ \E t \in Threads : SaveRead(t)
    \/ \E t \in Threads : SaveWrite(t)
    \/ AgentAppend
    \/ AgentDamage
Spec == Init /\ [][Next]_vars

DaemonInit == (DaemonNew \/ DaemonInLoop) /\ ExecIdle /\ NotifierIdle
    /\ SanitizerIdle
DaemonNext ==
    \/ DaemonStart
    \/ DaemonLoop
    \/ Signal
    \/ StopStep
    \/ ObserverDispatch
    \/ \E t \in Threads : Execute(t)
    \/ \E t \in Threads : WriteStatus(t)
    \/ \E t \in Threads : SaveRead(t)
    \/ \E t \in Threads : SaveWrite(t)
SpecDaemon == DaemonInit /\ [][DaemonNext]_vars

NotifyInit == NotifierInit /\ PollerIdle /\ ExecIdle /\ WatchIdle /\ DaemonIdle
    /\ SanitizerIdle
NotifyNext == NotifyInbox \/ NotifierClose
SpecNotify == NotifyInit /\ [][NotifyNext]_vars

\* The watcher and the pipeline without the agent, under every answer of
\* DispatchNet
DispatchNext ==
    \/ WatcherStart
    \/ InitialRead
    \/ OnModified
    \/ \E t \in Threads : DispatchExecute(t)
    \/ \E t \in Threads : WriteStatus(t)
    \/ \E t \in Threads : SaveRead(t)
    \/ \E t \in Threads : SaveWrite(t)
DispatchInit ==
    WatchInitWith(DispatchFiles) /\ PollerIdle /\ ExecIdle /\ DaemonIdle /\ NotifierIdle
    /\ SanitizerIdle
SpecDispatch == DispatchInit /\ [][DispatchNext]_vars

\* The same pipeline under fair scheduling: the starting thread goes on with
\* start(), the observer thread handles every event it has, and a thread
\* inside a batch takes its next step (every outbound call returns).
ThreadStep(t) == DispatchExecute(t) \/ WriteStatus(t) \/ SaveRead(t) \/ SaveWrite(t)
LiveInit ==
    WatchInitWith(LiveFiles) /\ PollerIdle /\ ExecIdle /\ DaemonIdle /\ NotifierIdle
    /\ SanitizerIdle
LiveNext ==
    \/ WatcherStart
    \/ InitialRead
    \/ OnModified
    \/ \E t \in Threads : ThreadStep(t)
SpecLive ==
    /\ LiveInit /\ [][LiveNext]_vars
    /\ WF_vars(WatcherStart) /\ WF_vars(InitialRead) /\ WF_vars(OnModified)
    /\ \A t \in Threads : WF_vars(ThreadStep(t))

-----------------------------------------------------------------------------
(* Claims about the long-poll ingestor, under SpecPoll *)

\* C4: over any sequence of poll() calls the offset never decreases, and when
\* the poller started from offset 0 and updates have been seen, the offset is
\* the largest update_id seen in any batch so far plus one.
C4_OffsetMonotonic ==
    /\ [][offset' >= offset]_vars
    /\ [](startOffset = 0 /\ maxSeen >= 0 => offset = maxSeen + 1)

\* A poll whose updates all lie below an earlier batch's, offset kept.
C4_Witness ==
    /\ startOffset = 0
    /\ lastPoll.updates # <<>>
    /\ \A i \in 1..Len(lastPoll.updates) : lastPoll.updates[i].update_id < maxSeen
    /\ offset = maxSeen + 1

\* C5: in the daemon, a poll that yields a non-empty batch of messages wakes
\* the agent's hook exactly once, after the batch is in the inbox file, and a
\* poll that yields no messages wakes it not at all.
C5_WakePerBatch ==
    callback = DaemonPollerCallback =>
        /\ lastPoll.updates # <<>> =>
             lastPoll.notified = 1 /\ lastPoll.inboxAtNotify = lastPoll.messages
        /\ lastPoll.updates = <<>> => lastPoll.notified = 0

\* The messages of a batch of updates, tagged, in the order received.
BatchMessages(updates) ==
    LET carries(u) == u.message # NoMessage
        with == SelectSeq(updates, carries)
    IN  [i \in 1..Len(with) |-> [update_id |-> with[i].update_id, text |-> with[i].message]]

\* C6: after a poll that extracted a non-empty batch the inbox file holds
\* exactly that batch's messages, each with its update_id, in the order
\* received; a poll that extracts no message leaves the file as it was.
C6_InboxHoldsLastBatch ==
    /\ [](lastPoll.updates # <<>> =>
            inboxFile = [state |-> "ok", messages |-> BatchMessages(lastPoll.updates)])
    /\ [][lastPoll'.updates = <<>> => inboxFile' = inboxFile]_vars

\* The inbox held a message with update_id 1 at start; the poll brought one
\* with update_id 0, and the file holds only that.
C6_Witness ==
    /\ startOffset = 2
    /\ lastPoll.updates = <<[update_id |-> 0, message |-> "m1"]>>
    /\ inboxFile.messages = <<[update_id |-> 0, text |-> "m1"]>>

-----------------------------------------------------------------------------
(* Claims about the outbound executor, under SpecExec *)

\* C7: execute() returns a response for every request and never raises.
C7_ExecuteNeverRaises == execPc = "done" => ~execOut.raised

\* The body execute() would send: the translated request's, or the request's own.
BodyAfterTranslation(in) ==
    LET unified == translate_unified_format(in.request, in.cfg)
    IN  IF unified.kind = "ok" THEN unified.request.body ELSE in.request.body

ErrorMsg(response) == IF response.error = Absent THEN "" ELSE response.error.msg

\* C8: a body whose JSON serialization is longer in bytes than max_body_size
\* gets a response without status and body whose error names the measured
\* size and the limit, and no HTTP call is made; a body of at most
\* max_body_size bytes is not rejected by this check.
C8_BodyCeiling ==
    execPc = "done" /\ ~execOut.raised =>
        LET body == BodyAfterTranslation(execIn)
            size == JsonSize(body)
            limit == execIn.cfg.max_body_size
        IN  /\ body # Absent /\ size > limit =>
                 /\ execOut.response =
                      Response(Absent, Absent, Error("Body size exceeds limit", size, limit))
                 /\ execOut.calls = <<>>
            /\ size <= limit => ErrorMsg(execOut.response) # "Body size exceeds limit"

\* A translated send whose text makes the body too large.
C8_Witness ==
    /\ execPc = "done"
    /\ translate_unified_format(execIn.request, execIn.cfg).kind = "ok"
    /\ JsonSize(BodyAfterTranslation(execIn)) > execIn.cfg.max_body_size
    /\ ErrorMsg(execOut.response) = "Body size exceeds limit"
    /\ execOut.calls = <<>>

\* A request the translator did not produce, with a URL string.
IsRawRequest(in) ==
    /\ translate_unified_format(in.request, in.cfg).kind = "none"
    /\ in.request.url.t = "url"

-----------------------------------------------------------------------------
(* Claims about the queue watcher and the dispatch pipeline, under Spec *)

IsPending(entry) == Get(entry, "status") = Str("pending")

\* C1: a watcher read, at startup or after an event, hands the callback
\* exactly the entries of the file whose status is "pending", in file order,
\* and does not call it when there are none; a completed or failed entry is
\* never handed over.
C1_ReadPassesPending ==
    lastRead.thread # "none" =>
        /\ lastRead.batch = SelectSeq(lastRead.content, IsPending)
        /\ lastRead.called <=> lastRead.batch # <<>>
        /\ \A i \in 1..Len(lastRead.batch) :
             Get(lastRead.batch[i], "status") \notin {Str("completed"), Str("failed")}
        /\ lastRead.called =>
             threads[lastRead.thread].pc # "start" /\
             (threads[lastRead.thread].batch \in {lastRead.batch, <<>>})

\* The observer re-read a file with a finished entry and dispatched the rest.
C1_Witness ==
    /\ lastRead.thread = "observer"
    /\ lastRead.called
    /\ \E i \in 1..Len(lastRead.content) :
         Get(lastRead.content[i], "status") \in {Str("completed"), Str("failed")}
    /\ Len(lastRead.batch) < Len(lastRead.content)
    /\ threads["observer"].batch = lastRead.batch

\* C2: an event for the queue file that comes after the file's mtime changed
\* since the last handled queue-file event leads to a re-read; an event for
\* another file of the directory triggers no read and does not make a later
\* event for the changed queue file be ignored.
C2_QueueEventsReread ==
    /\ lastEvent.kind = "queue" /\ lastEvent.changed => lastEvent.read
    /\ lastEvent.kind = "other" => ~lastEvent.read

\* The status requests.json records for an id, "none" when it has no such entry
StatusOf(requests, id) ==
    LET hits == {i \in 1..Len(requests) : Get(requests[i], "id") = Str(id)}
    IN  IF hits = {} THEN "none"
        ELSE LET status == Get(requests[CHOOSE i \in hits : \A j \in hits : i <= j], "status")
             IN  IF status = Absent THEN "none" ELSE status.v

\* C3: the pipeline writes the status of an entry at most once, and a status
\* recorded as completed or failed is never later recorded as pending or as
\* the other of the two, whatever the interleaving of the startup pass and the
\* event-triggered dispatches.
C3_StatusWrittenOnce ==
    /\ [](\A id \in Ids : statusWrites[id] <= 1)
    /\ [][\A id \in Ids :
            StatusOf(requestsFile.requests, id) \in {"completed", "failed"} =>
                StatusOf(requestsFile'.requests, id) \in
                    {StatusOf(requestsFile.requests, id), "none"}]_vars

\* An entry {"id", "command": "send", "payload": {chat_id, text}} of the queue
\* that the pipeline has dealt with
ProcessedTopLevelSend(id) ==
    \E i \in 1..Len(requestsFile.requests) :
        LET entry == requestsFile.requests[i]
        IN  /\ Get(entry, "id") = Str(id)
            /\ Get(entry, "command") = Str("send")
            /\ Get(entry, "payload") = RawBody("hi")
            /\ Get(entry, "status") \in {Str("completed"), Str("failed")}

\* C10: with a bot token configured, a pending entry with a top-level command
\* "send" and payload {chat_id, text} leads to one HTTP call, to the
\* sendMessage endpoint with that chat_id and text and no parse_mode, and
\* once the batch is over responses.json has the entry's id.
C10_TopLevelSendDelivered ==
    daemonCfg.bot_token # "" =>
        \A id \in Ids : ProcessedTopLevelSend(id) =>
            /\ Len(sent[id]) = 1
            /\ sent[id][1].url = TelegramUrl(daemonCfg.bot_token, "/sendMessage")
            /\ sent[id][1].body = RawBody("hi")
            /\ (\A t \in Threads : threads[t] = Finished(t)) => id \in DOMAIN responsesFile

\* A call that the HTTP client put on the wire: its URL has an http(s) scheme
\* and a host
OnTheWire(call) == call.url.t = "url" /\ StartsWithHttp(call.url) /\ call.url.host # ""

\* An entry of the queue whose body is a send command without chat_id
IsInvalidSend(entry) ==
    /\ Get(entry, "body") # Absent
    /\ Get(Get(entry, "body"), "command") = Str("send")
    /\ Get(Get(Get(entry, "body"), "payload"), "chat_id") = Absent

\* C11: a send command whose translation fails validation causes no outbound
\* HTTP call for the entry, its status stays pending, and no response is
\* written under its id.
C11_InvalidSendLeftPending ==
    \A i \in 1..Len(requestsFile.requests) :
        LET entry == requestsFile.requests[i]
            id == Get(entry, "id").v
        IN  IsInvalidSend(entry) =>
              /\ \A k \in 1..Len(sent[id]) : ~OnTheWire(sent[id][k])
              /\ Get(entry, "status") = Str("pending")
              /\ id \notin DOMAIN responsesFile

\* C12: a write to responses.json never removes an entry: every id once in
\* the file stays in it, over any interleaving of batches.
C12_ResponsesNeverLost ==
    [][DOMAIN responsesFile \subseteq DOMAIN responsesFile']_vars

\* The entries of a batch before position j that have an id
EarlierWithId(batch, j) == {k \in 1..(j - 1) : Truthy(Get(batch[k], "id"))}

InBatch(t) == threads[t].pc \in {"execute", "write_status"}

BatchIds(batch) ==
    {Get(batch[k], "id").v : k \in {k \in 1..Len(batch) : Truthy(Get(batch[k], "id"))}}

C17_SameMtimeIgnored ==
    [][events # <<>> /\ events' = Tail(events)
         /\ requestsFile.state # "missing" /\ mtime = last_mtime =>
            /\ lastRead' = lastRead
            /\ threads' = threads
            /\ sent' = sent]_vars

\* A queue-file event was ignored: the file had not changed since the last
\* handled queue-file event.
C17_Witness ==
    /\ lastEvent.kind = "queue"
    /\ ~lastEvent.read
    /\ ~lastEvent.changed
    /\ mtimeAtQueueEvent = mtime
    /\ last_mtime = mtime
    /\ lastRead.thread = "observer"

\* C18: starting the watcher creates a missing queue file as an empty request
\* list, then makes one read-and-dispatch pass in the starting thread without
\* any change event: the pass hands the callback the entries pending in the
\* file at that moment, and the starting thread reads the file no second
\* time.
C18_OnePassAtStart ==
    /\ [][threads["main"].pc = "new" /\ threads'["main"].pc # "new" =>
            /\ threads'["main"].pc = "start"
            /\ requestsFile' = IF requestsFile.state = "missing"
                                THEN [state |-> "ok", requests |-> <<>>]
                                ELSE requestsFile
            /\ lastRead' = lastRead]_vars
    /\ [][threads["main"].pc = "start" /\ threads'["main"].pc # "start" =>
            /\ lastRead'.thread = "main"
            /\ lastRead'.content =
                  IF requestsFile.state = "ok" THEN requestsFile.requests ELSE <<>>
            /\ lastRead'.batch = SelectSeq(lastRead'.content, IsPending)
            /\ lastRead'.called <=> lastRead'.batch # <<>>
            /\ threads'["main"].batch \in {lastRead'.batch, <<>>}
            /\ threads'["main"].batch = <<>> => BatchIds(lastRead'.batch) = {}
            /\ events' = events /\ lastEvent' = lastEvent]_vars
    /\ [][lastRead' # lastRead /\ lastRead'.thread = "main" =>
            threads["main"].pc = "start"]_vars
    /\ [][threads["main"].pc \notin {"new", "start"} =>
            threads'["main"].pc \notin {"new", "start"}]_vars
    /\ [](threads["main"].pc # "new" => requestsFile.state # "missing" \/ agentWrites > 0)

\* The pass at start dispatched the two entries that were pending in the file,
\* and no event has been raised or handled.
C18_Witness ==
    /\ lastRead.thread = "main"
    /\ lastRead.called
    /\ Len(lastRead.batch) = 2
    /\ threads["main"].pc = "execute"
    /\ threads["main"].batch = lastRead.batch
    /\ events = <<>>
    /\ lastEvent = NoEvent
    /\ agentWrites = 0

\* C19: a read that finds the queue file missing or not valid JSON calls no
\* callback and returns normally, leaving the thread that made it ready for
\* the next event, the file as it is and no call made.
C19_BadFileReadIsQuiet ==
    /\ [](lastRead.state # "ok" => ~lastRead.called /\ lastRead.batch = <<>>)
    /\ [][lastRead' # lastRead /\ lastRead'.state # "ok" =>
            /\ threads'[lastRead'.thread] = Finished(lastRead'.thread)
            /\ requestsFile' = requestsFile
            /\ sent' = sent]_vars
    /\ [](threads["observer"].pc \in {"idle", "execute", "write_status",
                                      "save_read", "save_write"})

\* After a read that found the file missing or not JSON, the observer handled
\* a later event, read the rewritten file and dispatched its pending entry.
C19_Witness ==
    /\ lastRead.after_failure
    /\ lastRead.thread = "observer"
    /\ lastRead.state = "ok"
    /\ lastRead.called
    /\ lastEvent.kind = "queue" /\ lastEvent.read

-----------------------------------------------------------------------------
(* A further claim about the long-poll ingestor, under SpecPoll *)

\* C20: a poll() that ends in a timeout, a transport error, a response that
\* is not ok or an empty result list returns an empty batch, leaves the
\* offset and the inbox file as they were and does not call the callback.
C20_FailedPollChangesNothing ==
    [][running /\ (lastPoll'.kind \in {"timeout", "http_error", "not_ok", "error"}
                   \/ (lastPoll'.kind = "ok" /\ lastPoll'.received = 0)) =>
            /\ lastPoll'.messages = <<>>
            /\ lastPoll'.notified = 0
            /\ offset' = offset
            /\ inboxFile' = inboxFile]_vars

\* A poller with a callback had advanced its offset and filled the inbox; the
\* next poll timed out and left both as they were.
C20_Witness ==
    /\ lastPoll.kind = "timeout"
    /\ callback = "notify"
    /\ offset > startOffset
    /\ inboxFile.state = "ok" /\ inboxFile.messages # <<>>
    /\ maxSeen >= 0

-----------------------------------------------------------------------------
(* Claims about the daemon's life cycle, under SpecDaemon *)

\* C15: with a usable data directory start() completes its startup and enters
\* the poll loop; it does not end by an exception.
C15_StartEntersLoop == daemon.pc # "crashed"

\* C16: once stop() has returned, the running flag is false, the observer has
\* been stopped and joined and its thread is idle, the poller is stopped, both
\* HTTP clients are closed, and no read, dispatch or outbound call happens any
\* more; the outbound client is closed only after the observer is joined, and
\* no outbound call is made after it is closed.
C16_StopOrder ==
    /\ [](daemon.stops >= 1 =>
            /\ ~daemon.running
            /\ daemon.watcher \in {"none", "stopped"}
            /\ threads["observer"] = Finished("observer")
            /\ ~running
            /\ "outbound" \in daemon.closed
            /\ daemon.poller => "inbound" \in daemon.closed)
    /\ [][daemon.stops >= 1 =>
            threads' = threads /\ lastRead' = lastRead /\ sent' = sent]_vars
    /\ []("outbound" \in daemon.closed =>
            daemon.watcher \in {"none", "stopped"}
            /\ threads["observer"] = Finished("observer"))
    /\ [][ "outbound" \in daemon.closed => sent' = sent]_vars

\* stop() has returned after a dispatch by the observer: calls were made,
\* the observer is joined with events left unhandled, both clients are closed.
C16_Witness ==
    /\ daemon.stops >= 1
    /\ daemon.watcher = "stopped"
    /\ daemon.poller
    /\ daemon.closed = {"inbound", "outbound"}
    /\ lastRead.thread = "observer" /\ lastRead.called
    /\ \E id \in Ids : sent[id] # <<>>
    /\ events # <<>>

\* C21: after a non-empty batch has been written to the inbox file, the
\* offset derived from the file is the batch's largest update_id plus one; an
\* inbox file that is empty, missing or not JSON gives offset 0.
C21_OffsetRoundTrip ==
    /\ lastPoll.messages # <<>> =>
          /\ inboxFile.state = "ok"
          /\ load_offset(inboxFile) =
                Max({lastPoll.messages[i].update_id : i \in 1..Len(lastPoll.messages)}) + 1
    /\ inboxFile.state # "ok" \/ inboxFile.messages = <<>> => load_offset(inboxFile) = 0
    /\ startOffset # -1 /\ lastPoll = NoPoll => startOffset = load_offset(inboxFile)

\* A batch whose largest update_id is not the last one was written; the
\* offset derived from the file is that largest id plus one.
C21_Witness ==
    /\ Len(lastPoll.messages) = 2
    /\ lastPoll.messages[1].update_id = 1
    /\ lastPoll.messages[2].update_id = 0
    /\ inboxFile.messages = lastPoll.messages
    /\ load_offset(inboxFile) = 2

\* C22 as stated: in every response execute() returns, either status is
\* present and error absent, or error is present and status absent; status
\* and error are never both present.
C22_StatusXorError ==
    execPc = "done" /\ ~execOut.raised =>
        LET response == execOut.response
        IN  \/ response.status # Absent /\ response.error = Absent
            \/ response.error # Absent /\ response.status = Absent

\* The answer's content-length header is a number above max_response_size.
ResponseTooLarge(in) ==
    /\ in.net.kind = "ok"
    /\ in.net.content_length.t = "num"
    /\ in.net.content_length.n > in.cfg.max_response_size

\* C22 amended: in every response execute() returns, status or error is
\* present and the body is absent whenever error is present; status and
\* error are both present exactly when the HTTP call was made and answered
\* with a content-length above max_response_size, and in every other
\* response exactly one of the two is present.
C22_StatusOrError ==
    execPc = "done" /\ ~execOut.raised =>
        LET response == execOut.response
        IN  /\ response.status # Absent \/ response.error # Absent
            /\ response.error # Absent => response.body = Absent
            /\ response.status # Absent /\ response.error # Absent <=>
                  /\ execOut.calls # <<>>
                  /\ ResponseTooLarge(execIn)
                  /\ client_request(execOut.calls[1].url, execIn.net) = execIn.net

\* A request was answered 200 with a content-length above the ceiling: the
\* response carries both the status and an error.
C22_Witness ==
    /\ execPc = "done"
    /\ ~execOut.raised
    /\ ResponseTooLarge(execIn)
    /\ execOut.response.status = Num(200)
    /\ execOut.response.error # Absent
    /\ execOut.response.body = Absent

\* What the HTTP call of a finished execute() met: the network's answer, or
\* the client's own failure for a URL it cannot request.
CallOutcome == client_request(execOut.calls[1].url, execIn.net)

\* C23: when the HTTP call raises, execute() returns a response without
\* status and body whose error is "Timeout: " and the message for a timeout,
\* "HTTP error: " and the message for any other transport failure, and the
\* bare message for any other exception; a timeout is never reported as an
\* HTTP error.
C23_CallFailureMapping ==
    execPc = "done" /\ ~execOut.raised /\ execOut.calls # <<>> =>
        /\ CallOutcome.kind = "timeout" =>
              execOut.response = Response(Absent, Absent, Error("Timeout: ", 0, 0))
        /\ CallOutcome.kind = "http_error" =>
              execOut.response = Response(Absent, Absent, Error("HTTP error: ", 0, 0))
        /\ CallOutcome.kind = "exception" =>
              execOut.response = Response(Absent, Absent, Error("", 0, 0))
        /\ ErrorMsg(execOut.response) = "HTTP error: " => CallOutcome.kind = "http_error"

\* The call of a translated request timed out.
C23_Witness ==
    /\ execPc = "done"
    /\ translate_unified_format(execIn.request, execIn.cfg).kind = "ok"
    /\ execOut.calls # <<>>
    /\ execIn.net.kind = "timeout"
    /\ execOut.response = Response(Absent, Absent, Error("Timeout: ", 0, 0))

\* The requirements of the three commands on an envelope and the configuration
CommandRequirements(request, cfg) ==
    /\ Truthy(request.body) /\ IsDict(request.body)
    /\ LET command == Get(request.body, "command")
           payload == Get(request.body, "payload")
       IN  /\ Truthy(payload) /\ IsDict(payload)
           /\ \/ /\ command = Str("send")
                 /\ Truthy(Get(payload, "chat_id"))
                 /\ (Truthy(Get(payload, "text")) \/ Truthy(Get(payload, "path")))
                 /\ cfg.bot_token # ""
                 /\ Truthy(Get(payload, "path")) =>
                       /\ Get(payload, "path").t = "str"
                       /\ Get(payload, "path").v \in ExistingFiles \cap ReadableFiles
              \/ /\ command = Str("search")
                 /\ Truthy(Get(payload, "query"))
                 /\ cfg.jina_api_key # ""
              \/ /\ command = Str("read")
                 /\ Get(payload, "url").t = "url"
                 /\ StartsWithHttp(Get(payload, "url"))
                 /\ cfg.jina_api_key # ""

\* C25: the translator returns a concrete request exactly when the
\* requirements of the command hold (send: non-empty chat_id, text or path, a
\* bot token and, with a path, an existing readable file; search: non-empty
\* query and a search key; read: an http(s) url and a search key), and it
\* returns "not applicable" in every other case.
C25_TranslatesIffRequirements ==
    execPc = "done" =>
        LET unified == translate_unified_format(execIn.request, execIn.cfg)
        IN  IF CommandRequirements(execIn.request, execIn.cfg)
            THEN unified.kind = "ok"
            ELSE unified = NotApplicable

\* C26: a translated send request is a document upload (sendDocument
\* endpoint, the file attached, caption = text when text is given, no text
\* field) exactly when path is given, and otherwise a text message
\* (sendMessage endpoint, chat_id and text as strings, no attachment); its
\* parse_mode field is absent exactly when format is "plain" or omitted, and
\* is "Markdown" for markdown and "Html" for html.
C26_SendShape ==
    execPc = "done" /\ IsDict(execIn.request.body)
        /\ Get(execIn.request.body, "command") = Str("send")
        /\ translate_unified_format(execIn.request, execIn.cfg).kind = "ok" =>
        LET unified == translate_unified_format(execIn.request, execIn.cfg)
            payload == Get(execIn.request.body, "payload")
            text == Get(payload, "text")
            path == Get(payload, "path")
            format == Get(payload, "format")
            body == unified.request.body
            token == execIn.cfg.bot_token
        IN  /\ Get(body, "chat_id") = PyStr(Get(payload, "chat_id"))
            /\ IF path # Absent
               THEN /\ unified.request.url =
                         Url("https", "api.telegram.org", <<"/bot", token, "/sendDocument">>)
                    /\ unified.files = [t |-> "files", name |-> path.v]
                    /\ Get(body, "caption") = IF Truthy(text) THEN PyStr(text) ELSE Absent
                    /\ Get(body, "text") = Absent
               ELSE /\ unified.request.url =
                         Url("https", "api.telegram.org", <<"/bot", token, "/sendMessage">>)
                    /\ unified.files = Absent
                    /\ Get(body, "text") = PyStr(text)
                    /\ Get(body, "caption") = Absent
            /\ Get(body, "parse_mode") = Absent <=> format \in {Absent, Str("plain")}
            /\ format = Str("markdown") => Get(body, "parse_mode") = Str("Markdown")
            /\ format = Str("html") => Get(body, "parse_mode") = Str("Html")

\* A send with path, text and format html was translated to a document
\* upload with caption and parse_mode.
C26_Witness ==
    /\ execPc = "done"
    /\ translate_unified_format(execIn.request, execIn.cfg).kind = "ok"
    /\ translate_unified_format(execIn.request, execIn.cfg).files # Absent
    /\ execOut.calls # <<>>
    /\ Get(execOut.calls[1].body, "caption") = Str("hi")
    /\ Get(execOut.calls[1].body, "parse_mode") = Str("Html")

-----------------------------------------------------------------------------
(* Claims about the pipeline under every answer, under SpecDispatch *)

\* The response execute() gives for an answer whose content-length is n
TooLargeResponse(status, n, cfg) ==
    Response(Num(status), Absent,
             Error("Response size exceeds limit", n, cfg.max_response_size))

\* C24: when the answer to an entry's HTTP call has a content-length above
\* max_response_size, the response execute() returns carries the transport
\* status code, no body and an error naming that length and the limit, and
\* the pipeline marks the entry failed (in the copy of requests.json it
\* loaded, if the entry is there); a response with the size error never has
\* a body, neither in the batch nor in responses.json, and it is never given
\* for a content-length of at most max_response_size.
C24_ResponseCeiling ==
    [][/\ \A t \in Threads :
             threads[t].pc = "execute" /\ threads'[t] # threads[t] =>
                 LET req == threads[t].batch[threads[t].idx]
                     id == Get(req, "id").v
                     response == threads'[t].responses[id]
                 IN  /\ threads'[t].pc # IF t = "main" THEN "done" ELSE "idle"
                     /\ \E net \in DispatchNet :
                           response = execute(http_request(req), daemonCfg, net).response
                     /\ \A net \in DispatchNet :
                           LET out == execute(http_request(req), daemonCfg, net)
                           IN  /\ response = out.response
                               /\ out.calls # <<>>
                               /\ client_request(out.calls[1].url, net) = net
                               /\ net.kind = "ok"
                               /\ net.content_length.t = "num"
                               /\ net.content_length.n > daemonCfg.max_response_size
                               => /\ response = TooLargeResponse(net.status,
                                                                 net.content_length.n, daemonCfg)
                                  /\ threads'[t].status = "failed"
                     /\ ErrorMsg(response) = "Response size exceeds limit" =>
                           /\ response.body = Absent
                           /\ response.error.measured > daemonCfg.max_response_size
                           /\ response.error.limit = daemonCfg.max_response_size
                           /\ threads'[t].status = "failed"
       /\ \A t \in Threads :
             threads[t].pc = "write_status" /\ threads'[t] # threads[t] =>
                 LET id == Get(threads[t].batch[threads[t].idx], "id").v
                     present == \E i \in 1..Len(threads[t].data) :
                                   Get(threads[t].data[i], "id") = Str(id)
                 IN  ErrorMsg(threads[t].responses[id]) = "Response size exceeds limit"
                     /\ present => StatusOf(requestsFile'.requests, id) = "failed"
       /\ \A id \in DOMAIN responsesFile' :
             ErrorMsg(responsesFile'[id]) = "Response size exceeds limit" =>
                 /\ responsesFile'[id].body = Absent
                 /\ responsesFile'[id].status # Absent
       ]_vars

\* An entry whose call was answered with a content-length above the ceiling
\* is marked failed in requests.json, and responses.json holds its status
\* code and the size error without a body.
C24_Witness ==
    \E id \in DOMAIN responsesFile :
        /\ responsesFile[id] = TooLargeResponse(200, ResponseLimit + 1, daemonCfg)
        /\ requestsFile.state = "ok"
        /\ StatusOf(requestsFile.requests, id) = "failed"

\* The entry thread t is executing or about to mark, if any
EntryInHand(t) ==
    IF threads[t].pc \in {"execute", "write_status"}
    THEN {Get(threads[t].batch[threads[t].idx], "id")} ELSE {}

\* C30: at most one dispatch is in flight at any time: the startup pass of
\* the starting thread and a dispatch of the observer thread never overlap,
\* and no entry is handled by both at once.
C30_OneDispatchInFlight ==
    /\ ~(InBatch("main") /\ InBatch("observer"))
    /\ EntryInHand("main") \cap EntryInHand("observer") = {}

\* C29: a status update for id X writes back the queue it loaded with the
\* status field of the first entry whose id is X set to the new status:
\* every other entry (later entries with the same id included), every other
\* field of that entry and the order of the entries are as loaded, and when
\* no entry has id X the list is written back unchanged.
C29_StatusUpdateFrame ==
    [][\A t \in Threads :
          threads[t].pc = "write_status" /\ threads'[t] # threads[t] =>
              LET loaded == threads[t].data
                  id == Get(threads[t].batch[threads[t].idx], "id")
                  written == requestsFile'.requests
                  first(i) == /\ Get(loaded[i], "id") = id
                              /\ \A j \in 1..(i - 1) : Get(loaded[j], "id") # id
              IN  /\ requestsFile'.state = "ok"
                  /\ Len(written) = Len(loaded)
                  /\ \A i \in 1..Len(loaded) :
                        IF first(i)
                        THEN /\ Get(written[i], "status") = Str(threads[t].status)
                             /\ \A key \in {"id", "command", "payload", "url", "body"} :
                                   Get(written[i], key) = Get(loaded[i], key)
                             /\ Len(written[i].items) =
                                   Len(loaded[i].items)
                                   + IF Get(loaded[i], "status") = Absent THEN 1 ELSE 0
                        ELSE written[i] = loaded[i]
      ]_vars

\* The status of the first of two entries with the same id has been
\* written; the second entry is as it was.
C29_Witness ==
    /\ requestsFile.state = "ok"
    /\ Len(requestsFile.requests) = 3
    /\ Get(requestsFile.requests[1], "id") = Str("a")
    /\ Get(requestsFile.requests[2], "id") = Str("a")
    /\ Get(requestsFile.requests[1], "status") = Str("completed")
    /\ requestsFile.requests[2] = RawSend("a", "failed")
    /\ statusWrites["a"] > 0

\* C37: the status the pipeline gives an entry is failed exactly when the
\* entry's response carries an error and completed otherwise, and that is
\* the status it writes to the entry in requests.json; a response with
\* status code 400 and no error makes the entry completed.
C37_StatusFollowsError ==
    [][/\ \A t \in Threads :
             threads[t].pc = "execute" /\ threads'[t].pc = "write_status" =>
                 LET id == Get(threads[t].batch[threads[t].idx], "id").v
                     response == threads'[t].responses[id]
                 IN  /\ threads'[t].status \in {"completed", "failed"}
                     /\ threads'[t].status = "failed" <=> response.error # Absent
                     /\ response = Response(Num(400), [t |-> "json"], Absent) =>
                           threads'[t].status = "completed"
       /\ \A t \in Threads :
             threads[t].pc = "write_status" /\ threads'[t] # threads[t] =>
                 LET id == Get(threads[t].batch[threads[t].idx], "id").v
                     present == \E i \in 1..Len(threads[t].data) :
                                   Get(threads[t].data[i], "id") = Str(id)
                 IN  present =>
                         StatusOf(requestsFile'.requests, id) =
                             IF threads[t].responses[id].error = Absent
                             THEN "completed" ELSE "failed"
       ]_vars

\* An entry whose call was answered 400 is completed in requests.json and
\* its response, without error, is in responses.json.
C37_Witness ==
    \E id \in DOMAIN responsesFile :
        /\ responsesFile[id] = Response(Num(400), [t |-> "json"], Absent)
        /\ requestsFile.state = "ok"
        /\ StatusOf(requestsFile.requests, id) = "completed"
        /\ sent[id] # <<>>

\* The command execute() reads from the body it was called with (lines
\* 391-392), before translation.
OriginalCommand ==
    IF Truthy(execIn.request.body) /\ IsDict(execIn.request.body)
    THEN Get(execIn.request.body, "command") ELSE Absent

\* execute() has returned the response of an answered call within the limits
Answered == execPc = "done" /\ ~execOut.raised /\ execOut.response.error = Absent

\* C38 as stated: the body of a successful response is the sanitizer's
\* output exactly when the request was translated from a search or read
\* command.
C38_SanitizedIffTranslated ==
    Answered =>
        (execOut.response.body.t = "sanitized" <=>
            /\ translate_unified_format(execIn.request, execIn.cfg).kind = "ok"
            /\ OriginalCommand \in {Str("search"), Str("read")})

\* C38 amended: the body of a successful response is the output of the
\* search or read sanitizer exactly when the command of the body execute()
\* was called with is search or read, whether or not the translator
\* produced a request from it; in every other case it is the parsed answer,
\* or nothing when the answer has no text.
C38_SanitizedByOriginalCommand ==
    Answered =>
        LET body == execOut.response.body
        IN  /\ body.t = "sanitized" <=> OriginalCommand \in {Str("search"), Str("read")}
            /\ body.t = "sanitized" => Str(body.type) = OriginalCommand
            /\ body.t # "sanitized" =>
                  body = IF execIn.net.text = "empty" THEN Absent ELSE [t |-> "json"]

\* A search command that the translator did not translate went to the URL of
\* its entry, and the answer came back through the search sanitizer.
C38_Witness ==
    /\ Answered
    /\ OriginalCommand = Str("search")
    /\ translate_unified_format(execIn.request, execIn.cfg).kind = "none"
    /\ execOut.calls # <<>>
    /\ execOut.calls[1].url = execIn.request.url
    /\ execOut.response.body = [t |-> "sanitized", type |-> "search"]

\* The characters of a URL
RECURSIVE PiecesText(_)
PiecesText(pieces) ==
    IF pieces = <<>> THEN "" ELSE Head(pieces) \o PiecesText(Tail(pieces))
UrlText(u) ==
    u.scheme \o (IF u.scheme # "" THEN "://" ELSE "") \o u.host \o PiecesText(u.pieces)

\* sub in text
Contains(text, sub) ==
    \E i \in 1..(Len(text) - Len(sub) + 1) : SubSeq(text, i, i + Len(sub) - 1) = sub

\* The URL of the request execute() goes on with after translation
UrlToSend ==
    LET unified == translate_unified_format(execIn.request, execIn.cfg)
    IN  IF unified.kind = "ok" THEN unified.request.url ELSE execIn.request.url

\* C40: with a bot token configured the URL handed to the HTTP client does
\* not contain "<token>": it is the request's URL with every occurrence
\* replaced by the token; without a token, or when the URL has no
\* placeholder, the URL handed over is the request's URL unchanged.
C40_PlaceholderReplaced ==
    execPc = "done" /\ ~execOut.raised /\ execOut.calls # <<>> /\ UrlToSend.t = "url" =>
        LET token == execIn.cfg.bot_token
            url == execOut.calls[1].url
        IN  /\ Len(execOut.calls) = 1
            /\ token # "" =>
                  /\ ~Contains(UrlText(url), "<token>")
                  /\ url.scheme = UrlToSend.scheme /\ url.host = UrlToSend.host
                  /\ Len(url.pieces) = Len(UrlToSend.pieces)
                  /\ \A i \in 1..Len(url.pieces) :
                        url.pieces[i] = IF UrlToSend.pieces[i] = "<token>"
                                         THEN token ELSE UrlToSend.pieces[i]
            /\ token = "" \/ ~Contains(UrlText(UrlToSend), "<token>") => url = UrlToSend

\* A raw request whose URL names the placeholder twice was sent with the
\* token in both places.
C40_Witness ==
    /\ execPc = "done"
    /\ execIn.cfg.bot_token = "T"
    /\ execIn.request.url.t = "url"
    /\ UrlText(execIn.request.url) = "https://api.telegram.org/file/bot<token>/bot<token>"
    /\ execOut.calls # <<>>
    /\ UrlText(execOut.calls[1].url) = "https://api.telegram.org/file/botT/botT"
    /\ execOut.response.status = Num(200)

-----------------------------------------------------------------------------
(* Claims about the wake notifier, under SpecNotify *)

\* The notifier has a hook address and a credential.
IsConfigured == Truthy(notifier.hook_url) /\ Truthy(notifier.hook_token)

\* C27: notify_inbox returns true only when the hook address and the
\* credential are both configured and the POST to the wake endpoint got a
\* success status, and then it does return true; when either is not
\* configured no request is sent and the result is false; a timeout, a
\* transport failure, any other exception and an error status give false;
\* at most one request is sent per call.
C27_NotifyResult ==
    lastNotify.kind = "call" =>
        /\ lastNotify.result =>
              /\ IsConfigured
              /\ Len(lastNotify.requests) = 1
              /\ lastNotify.net.kind = "ok" /\ lastNotify.net.status < 400
        /\ ~IsConfigured => lastNotify.requests = <<>> /\ ~lastNotify.result
        /\ lastNotify.net.kind \in {"timeout", "http_error", "exception"}
              \/ lastNotify.net.status >= 400 => ~lastNotify.result
        /\ IsConfigured /\ notifier.hook_url.t = "url" /\ lastNotify.net.kind = "ok"
              /\ lastNotify.net.status < 400 => lastNotify.result
        /\ Len(lastNotify.requests) <= 1

\* A configured notifier whose POST was answered with an error status
\* returned false.
C27_Witness ==
    /\ lastNotify.kind = "call"
    /\ IsConfigured
    /\ Len(lastNotify.requests) = 1
    /\ lastNotify.net.kind = "ok"
    /\ lastNotify.net.status = 500
    /\ ~lastNotify.result

\* C28: the wake request is determined by the hook address, the credential
\* and the update_id: its URL is the hook address with "/agent" replaced by
\* "/wake", its headers carry the credential, its body the update_id and the
\* mode; two calls of one notifier with the same update_id send identical
\* requests whatever their chat_id and text.
C28_WakeRequestIgnoresMessage ==
    /\ lastNotify.requests # <<>> =>
          LET request == lastNotify.requests[1]
          IN  /\ request.url.scheme = notifier.hook_url.scheme
              /\ request.url.host = notifier.hook_url.host
              /\ Len(request.url.pieces) = Len(notifier.hook_url.pieces)
              /\ \A i \in 1..Len(request.url.pieces) :
                    request.url.pieces[i] =
                        IF notifier.hook_url.pieces[i] = "/agent" THEN "/wake"
                        ELSE notifier.hook_url.pieces[i]
              /\ request.headers = [content_type |-> "application/json",
                                     authorization |-> <<"Bearer", notifier.hook_token>>]
              /\ request.json =
                    Obj(<< <<"text", [t |-> "inbox_msg",
                                      update_id |-> lastNotify.update_id]>>,
                           <<"mode", Str("now")>> >>)
    /\ lastNotify.kind = "call" /\ prevNotify.kind = "call"
          /\ lastNotify.update_id = prevNotify.update_id =>
              lastNotify.requests = prevNotify.requests

\* Two calls with the same update_id, different chat_id and different text
\* sent the same request.
C28_Witness ==
    /\ lastNotify.kind = "call" /\ prevNotify.kind = "call"
    /\ lastNotify.update_id = prevNotify.update_id
    /\ lastNotify.chat_id # prevNotify.chat_id
    /\ lastNotify.text # prevNotify.text
    /\ lastNotify.requests # <<>>
    /\ lastNotify.requests = prevNotify.requests

-----------------------------------------------------------------------------
(* Claims about the pipeline and its files, under Spec *)

\* C31: whenever requests.json records an entry the pipeline has marked as
\* completed or failed, responses.json holds a response under that id.
C31_TerminalStatusHasResponse ==
    requestsFile.state = "ok" =>
        \A id \in Ids :
            statusWrites[id] > 0
                /\ StatusOf(requestsFile.requests, id) \in {"completed", "failed"}
                => id \in DOMAIN responsesFile

\* C32: as long as the agent writes nothing, no entry is sent a second
\* time: the events raised by the pipeline's own status writes never lead to
\* another outbound call for an entry that already had one.
C32_NoSecondExecution ==
    agentWrites = 0 => \A id \in Ids : Len(sent[id]) <= 1

\* requests.json holds a pending entry with this id
HasPending(id) ==
    /\ requestsFile.state = "ok"
    /\ \E i \in 1..Len(requestsFile.requests) :
          /\ Get(requestsFile.requests[i], "id") = Str(id)
          /\ IsPending(requestsFile.requests[i])

\* The pipeline has come to rest: start() is through its startup pass, no
\* event is waiting and no thread is inside a batch. No step is possible
\* from such a state, so what is pending in it stays pending.
AtRest == events = <<>> /\ threads = [t \in Threads |-> Finished(t)]

\* C33: every pending entry of requests.json that has an id eventually has a
\* terminal status there and a response in responses.json, whatever else the
\* queue holds; so when the pipeline has come to rest, no entry with an id
\* is pending and every entry it executed has its response stored.
C33_PendingEventuallyAnswered ==
    AtRest =>
        \A id \in Ids :
            /\ ~HasPending(id)
            /\ sent[id] # <<>> => id \in DOMAIN responsesFile

\* The ids of the entries of a queue file
IdsIn(file) ==
    IF file.state = "ok"
    THEN {Get(file.requests[i], "id") : i \in 1..Len(file.requests)} ELSE {}

\* C34: an entry the agent has written to requests.json is not lost by a
\* status update of the pipeline: every entry the file holds when a thread
\* writes a status back is in the file after that write.
C34_AgentWriteSurvivesStatusUpdate ==
    [][\A t \in Threads :
          threads[t].pc = "write_status" /\ threads'[t] # threads[t] =>
              IdsIn(requestsFile) \subseteq IdsIn(requestsFile')
      ]_vars

-----------------------------------------------------------------------------
(* Claims about the poller's offset, under SpecPoll *)

\* C35: when a poll has written the inbox file, the offset a restart would
\* derive from that file is not lower than the offset the poller holds in
\* memory at that point.
C35_RestartOffsetNotLower ==
    lastPoll.messages # <<>> => load_offset(inboxFile) >= offset

\* C36: when the platform answers a poll with updates whose update_id is at
\* least the offset requested, none of the update_ids the poll writes to the
\* inbox file was in an earlier batch of this poller (all of those are below
\* the offset), and every poll requests the offset the poller holds in
\* memory.
C36_NoUpdateStoredTwice ==
    /\ [](running => maxSeen < offset)
    /\ [][lastPoll' # lastPoll =>
            /\ lastPoll'.requested = offset
            /\ (\A i \in 1..Len(lastPoll'.updates) :
                    lastPoll'.updates[i].update_id >= lastPoll'.requested) =>
                  \A i \in 1..Len(lastPoll'.messages) :
                      /\ lastPoll'.messages[i].update_id > maxSeen
                      /\ lastPoll'.messages[i].update_id < offset'
       ]_vars

\* After a batch that stored update 0, a poll at offset 1 got and stored
\* update 1.
C36_Witness ==
    /\ maxSeen = 1
    /\ lastPoll.requested = 1
    /\ Len(lastPoll.messages) = 1
    /\ lastPoll.messages[1].update_id = 1
    /\ inboxFile.messages = lastPoll.messages
    /\ offset = 2

-----------------------------------------------------------------------------
(* Claims about the response sanitizers, under SpecSanitize *)

\* The search sanitizer found no pair of title and url in the text it was
\* given and fell back to the raw text.
SearchFallback == sanIn.command = "search" /\ scan_lines(sanIn.text.lines, "", <<>>) = <<>>

\* The text the last sanitizer call had in hand before it limited the length:
\* for read the extracted content (or the raw text), for search the listing
\* of the pairs, or the raw text on the fallback path.
UncutText ==
    IF sanIn.command = "read"
    THEN IF sanIn.text.json = Invalid THEN sanIn.text.raw
         ELSE GetDefault(GetDefault(sanIn.text.json, "data", Obj(<<>>)),
                         "content", Str(sanIn.text.raw)).v
    ELSE IF SearchFallback THEN sanIn.text.raw
    ELSE JoinLines(listing_from(scan_lines(sanIn.text.lines, "", <<>>), 1))

TruncationMarker == IF sanIn.command = "read" THEN ReadMarker ELSE SearchMarker

\* C39: the content a sanitizer returns is never longer than
\* max_search_content_length plus the truncation marker; it is the first
\* max_search_content_length characters followed by the marker when the text
\* is longer than that, and the whole text without a marker otherwise, for
\* read and for search, the fallback to the raw text included.
C39_TruncationMarked ==
    sanIn.command \in {"search", "read"} /\ ~sanOut.raised =>
        /\ Len(sanOut.content) <= MaxContent + Len(TruncationMarker)
        /\ IF Len(UncutText) > MaxContent
           THEN sanOut.content = Prefix(UncutText, MaxContent) \o TruncationMarker
           ELSE sanOut.content = UncutText

=============================================================================
